---- MODULE Spec2Model ----
(***************************************************************************)
(* A model of the hybrid mount engine of meta-hybrid_mount:                *)
(*   - mount_overlay and its helpers        (src/src/mount/overlay.rs)     *)
(*   - run, setup_storage, classification   (src/src/main.rs)              *)
(*   - the Variant A hide protocol          (src/src/core/poaceae.rs)      *)
(*   - the Variant B HymoFS protocol        (src/src/mount/hymofs.rs)      *)
(* Each component has its own specification; the variables of the other    *)
(* components stay at their idle values.                                    *)
(***************************************************************************)
EXTENDS Integers, Sequences, FiniteSets, TLC

VARIABLES
    \* ---- mount_overlay (overlay.rs)
    ov_pc,        \* position inside mount_overlay
    mounts,       \* the live mount table of the process: Seq of [mount_point, fs]
    pre,          \* the mount table as it was when mount_overlay was called
    mount_seq,    \* the frozen snapshot (overlay.rs:196-205)
    idx,          \* index of the next snapshot entry the for loop visits
    reads,        \* how many times the mount table has been read
    child,        \* what was observed and done for the snapshot entry visited last
    revert,       \* the revert of overlay.rs:235: "none", "ok", "failed"
    ov_ret,       \* result of mount_overlay: "none" (running), "ok", "err"
    root_mount    \* how the root overlay was mounted: "none", "fsctx", "classic", "failed"

vars_ov == <<ov_pc, mounts, pre, mount_seq, idx, reads, child, revert, ov_ret, root_mount>>

VARIABLES
    \* ---- run (main.rs)
    run_pc,                 \* position inside run
    listing,                \* the entries of mnt_base in the order read_dir yields them
    partitions,             \* config.partitions: the configured extra partitions
    active_modules,         \* HashMap<String, PathBuf>: the ids scanned (main.rs:452)
    pending,                \* ids the classification loop has not visited yet
    modes,                  \* the mode resolved for each visited id: "auto" or "magic"
    part_dirs,              \* for each visited auto module, the partitions p with id/p a directory
    partition_overlay_map,  \* HashMap<String, Vec<PathBuf>> (main.rs:468)
    magic_mount_modules,    \* HashSet<PathBuf> (main.rs:469)
    overlay_calls,          \* the mount_overlay calls made: part -> [layers, ok, n]
    engine_calls,           \* the module lists handed to magic_mount::mount_partitions
    tempdir,                \* the engine's temp dir: "none", "created", "cleaned"
    run_ret,                \* result of run: "none" (running), "ok", "err"
    sync_result,            \* sync_active_modules: "none" (not called), "ok", "failed"
    failure                 \* what made run return Err: "none", "config", "logger", "storage",
                            \* "tempdir"

vars_run == <<run_pc, listing, partitions, active_modules, pending, modes, part_dirs,
              partition_overlay_map, magic_mount_modules, overlay_calls,
              engine_calls, tempdir, run_ret, sync_result, failure>>

VARIABLES
    \* ---- setup_storage and the cleanup before it (main.rs)
    st_pc,          \* position: "clean", "tmpfs", "probe", "image", "done"
    force_ext4,     \* config.force_ext4
    image_exists,   \* image_path.exists()
    mnt_stack,      \* the filesystems mounted on mnt_dir, bottom first
    tmpfs_mount,    \* utils::mount_tmpfs: "none" (not called), "ok", "failed"
    xattr,          \* utils::is_xattr_supported: "unprobed", "supported", "unsupported"
    tmpfs_umount,   \* the unmount of main.rs:238: "none", "ok", "failed"
    loop_attached,  \* TRUE once a loop device has been attached to the image
    image_mount,    \* utils::mount_image: "none" (not called), "ok", "failed"
    st_ret          \* result of setup_storage: "none" (running), "tmpfs", "ext4", "err"

vars_st == <<st_pc, force_ext4, image_exists, mnt_stack, tmpfs_mount, xattr, tmpfs_umount,
             loop_attached, image_mount, st_ret>>

VARIABLES
    \* ---- the Variant A protocol (poaceae.rs)
    pa_last,        \* the last verb called: its arguments, its result, what the ioctl was given
    hidden,         \* the driver's hide-rule set: the names (C strings) it hides
    before_pair,    \* the hide-rule set before the last hide (before the last call otherwise)
    pair            \* "ok"/"failed" when the last call is unhide(n) right after hide(n), else "none"

vars_pa == <<pa_last, hidden, before_pair, pair>>

VARIABLES
    \* ---- the Variant B protocol (hymofs.rs)
    hy_pc,            \* "idle" between the public operations, "apply" inside apply_rules
    hy_op,            \* the public operation called last
    hy_stage,         \* how far it got: "none", "skipped", "open_failed", "walk_failed", "applied"
    hy_walk,          \* the entries WalkDir yielded for the last inject_directory
    hy_rules,         \* the batch handed to apply_rules
    hy_i,             \* index of the next rule of the batch
    hy_issued,        \* the ioctls the last operation issued, in order: [op, rule, ok]
    hy_status,        \* what check_status / get_version saw and returned
    hy_ret,           \* result of the last operation: "none", "ok", "err"
    version_queried,  \* TRUE once a get-version ioctl has been issued by this process
    hy_opens          \* the times the last operation opened the control device

vars_hy == <<hy_pc, hy_op, hy_stage, hy_walk, hy_rules, hy_i, hy_issued, hy_status, hy_ret,
             version_queried, hy_opens>>

VARIABLES
    \* ---- the population of the storage root over successive runs (main.rs)
    sy_pc,        \* position inside a run: "setup", "sync", "scan", "done"
    source,       \* the module source directory: id -> [kind, marked]
    image,        \* the content of the ext4 image, which outlives a run: id -> kind
    sy_backend,   \* the backend setup_storage chose in this run: "none", "tmpfs", "ext4"
    mnt,          \* the content of the storage root mnt_base in this run: id -> kind
    scanned,      \* the directories the scan of the storage root found (main.rs:456-463)
    placed,       \* the ids this run put in a partition layer list or in the magic set
    sy_ret        \* result of this run: "none" (running), "ok", "err"

vars_sy == <<sy_pc, source, image, sy_backend, mnt, scanned, placed, sy_ret>>

VARIABLES
    \* ---- one call of mount_overlayfs, and one iteration of the loop of mount_overlay
    ofs,          \* the call of mount_overlayfs: its arguments, position and effects
    ch            \* the iteration: the files it meets, what it mounts, its result

vars_of == <<ofs>>
vars_ch == <<ch>>

VARIABLES
    \* ---- the upload loop of the notifier (tools/notify/src/main.rs)
    nt            \* its arguments, position, the requests it sent and its exit status

vars_nt == <<nt>>

vars == <<vars_ov, vars_run, vars_st, vars_pa, vars_hy, vars_sy, vars_of, vars_ch, vars_nt>>

\* what each component leaves alone
not_ov == <<vars_run, vars_st, vars_pa, vars_hy, vars_sy, vars_of, vars_ch, vars_nt>>
not_run == <<vars_ov, vars_st, vars_pa, vars_hy, vars_sy, vars_of, vars_ch, vars_nt>>
not_st == <<vars_ov, vars_run, vars_pa, vars_hy, vars_sy, vars_of, vars_ch, vars_nt>>
not_pa == <<vars_ov, vars_run, vars_st, vars_hy, vars_sy, vars_of, vars_ch, vars_nt>>
not_sy == <<vars_ov, vars_run, vars_st, vars_pa, vars_hy, vars_of, vars_ch, vars_nt>>
not_hy == <<vars_ov, vars_run, vars_st, vars_pa, vars_sy, vars_of, vars_ch, vars_nt>>
not_of == <<vars_ov, vars_run, vars_st, vars_pa, vars_hy, vars_sy, vars_ch, vars_nt>>
not_ch == <<vars_ov, vars_run, vars_st, vars_pa, vars_hy, vars_sy, vars_of, vars_nt>>
not_nt == <<vars_ov, vars_run, vars_st, vars_pa, vars_hy, vars_sy, vars_of, vars_ch>>

(***************************************************************************)
(* Paths are strings, modelled as sequences of one-character strings, so   *)
(* that byte-wise sorting, component-wise prefix tests and substring       *)
(* replacement can be told apart.                                           *)
(***************************************************************************)
CharOrd(c) ==
    CASE c = "-" -> 45
      [] c = "." -> 46
      [] c = "/" -> 47
      [] c = "a" -> 97
      [] c = "b" -> 98
      [] c = "s" -> 115
      [] c = "v" -> 118
      [] c = "xFF" -> 255

\* <str as Ord>::lt : byte-wise lexicographic order
RECURSIVE StrLess(_, _)
StrLess(x, y) ==
    IF x = <<>> THEN y # <<>>
    ELSE IF y = <<>> THEN FALSE
    ELSE IF Head(x) = Head(y) THEN StrLess(Tail(x), Tail(y))
    ELSE CharOrd(Head(x)) < CharOrd(Head(y))

\* Path::components of an absolute path: the names between the slashes
RECURSIVE SplitAcc(_, _, _)
SplitAcc(s, cur, acc) ==
    IF s = <<>> THEN (IF cur = <<>> THEN acc ELSE Append(acc, cur))
    ELSE IF Head(s) = "/" THEN SplitAcc(Tail(s), <<>>, IF cur = <<>> THEN acc ELSE Append(acc, cur))
    ELSE SplitAcc(Tail(s), Append(cur, Head(s)), acc)

Components(p) == SplitAcc(p, <<>>, <<>>)

IsPrefix(a, b) == Len(a) <= Len(b) /\ SubSeq(b, 1, Len(a)) = a

\* Path::starts_with : whole components only
PathStartsWith(p, base) == IsPrefix(Components(base), Components(p))

\* str::replacen(pat, "", 1) : the first occurrence of pat is removed
RECURSIVE Replacen(_, _)
Replacen(s, pat) ==
    IF IsPrefix(pat, s) THEN SubSeq(s, Len(pat) + 1, Len(s))
    ELSE IF s = <<>> THEN <<>>
    ELSE <<Head(s)>> \o Replacen(Tail(s), pat)

\* slice::sort on the mount points
RECURSIVE InsertSorted(_, _)
InsertSorted(x, s) ==
    IF s = <<>> THEN <<x>>
    ELSE IF StrLess(Head(s), x) \/ Head(s) = x THEN <<Head(s)>> \o InsertSorted(x, Tail(s))
    ELSE <<x>> \o s

RECURSIVE SortStrs(_)
SortStrs(s) == IF s = <<>> THEN <<>> ELSE InsertSorted(Head(s), SortStrs(Tail(s)))

\* Vec::dedup : consecutive equal elements are collapsed
RECURSIVE Dedup(_)
Dedup(s) ==
    IF Len(s) <= 1 THEN s
    ELSE IF s[1] = s[2] THEN Dedup(Tail(s))
    ELSE <<s[1]>> \o Dedup(Tail(s))

RECURSIVE SelectSeqOf(_, _)
SelectSeqOf(s, keep) ==
    IF s = <<>> THEN <<>>
    ELSE IF Head(s) \in keep THEN <<Head(s)>> \o SelectSeqOf(Tail(s), keep)
    ELSE SelectSeqOf(Tail(s), keep)

(***************************************************************************)
(* Bounds and the universe of mount points                                 *)
(***************************************************************************)
MaxMounts == 2      \* entries of the mount table when mount_overlay is called
NumModules == 2     \* module lower directories handed to mount_overlay

root == <<"/", "s">>

MountPoints ==
    { <<"/">>,
      <<"/", "s">>,
      <<"/", "s", "/", "a">>,
      <<"/", "s", "/", "b">>,
      <<"/", "s", "-", "a">>,
      <<"/", "s", "/", "a", "/", "b">>,
      <<"/", "s", "/", "xFF">>,
      <<"/", "v">> }

RECURSIVE SeqsUpTo(_, _)
SeqsUpTo(S, n) ==
    IF n = 0 THEN { <<>> }
    ELSE LET shorter == SeqsUpTo(S, n - 1)
         IN  shorter \cup { Append(s, x) : s \in { t \in shorter : Len(t) = n - 1 }, x \in S }

Kinds == {"none", "dir", "file"}

ModuleChar(i) == CASE i = 1 -> "1" [] i = 2 -> "2" [] i = 3 -> "3" [] OTHER -> "4"

\* the lower directories handed to mount_overlay: "/m1", "/m2", ... (main.rs:502-504)
module_roots == [i \in 1..NumModules |-> <<"/", "m", ModuleChar(i)>>]

\* Path::join : an absolute second path replaces the first
Join(base, rel) ==
    IF rel # <<>> /\ Head(rel) = "/" THEN rel
    ELSE base \o <<"/">> \o rel

NoChild == [mount_point |-> <<>>, relative |-> <<>>, stock_root |-> <<>>, stock |-> "none",
            lower_paths |-> <<>>, kinds |-> <<>>, action |-> "none", layers |-> <<>>,
            tried_overlay |-> FALSE, ok |-> TRUE]

Mount(mount_point, fs, lowerdir, rw) ==
    [mount_point |-> mount_point, fs |-> fs, lowerdir |-> lowerdir, rw |-> rw]

StockMount(p) == Mount(p, "stock", <<>>, FALSE)

(***************************************************************************)
(* overlay.rs                                                              *)
(***************************************************************************)
\* mount_overlayfs: the filesystem-context path, then the classic mount
mount_overlayfs(lower_dirs, lowest, upperdir, workdir, fsctx_ok, classic_ok) ==
    LET lowerdir_config == lower_dirs \o <<lowest>>
        upperdir_s == IF upperdir = "exists" THEN "some" ELSE "none"
        workdir_s  == IF workdir = "exists" THEN "some" ELSE "none"
    IN  [ok |-> fsctx_ok \/ classic_ok,
         lowerdir |-> lowerdir_config,
         rw |-> upperdir_s = "some" /\ workdir_s = "some",
         classic_tried |-> ~fsctx_ok]

\* bind_mount: open_tree + move_mount, both must succeed
bind_mount(from, to, bind_ok) ==
    [ok |-> bind_ok, from |-> from, to |-> to]

\* the for loop of mount_overlay_child (overlay.rs:147-155): the directories among
\* lower.join(relative), or "conflict" at the first one that exists and is no directory
RECURSIVE CollectLower(_, _, _)
CollectLower(lower_paths, kindOf, acc) ==
    IF lower_paths = <<>> THEN [conflict |-> FALSE, lower_dirs |-> acc]
    ELSE IF kindOf[Head(lower_paths)] = "dir"
         THEN CollectLower(Tail(lower_paths), kindOf, Append(acc, Head(lower_paths)))
    ELSE IF kindOf[Head(lower_paths)] # "none"
         THEN [conflict |-> TRUE, lower_dirs |-> acc]
    ELSE CollectLower(Tail(lower_paths), kindOf, acc)

\* a child step that reports the error of the child overlay although the bind mount
\* took its place
ChildOverlayFailed_Escalate(bound) == [bound EXCEPT !.ok = FALSE, !.tried_overlay = TRUE]

\* overlay.rs:169-177: the child overlay failed, the result is that of the bind mount
ChildOverlayFailed(bound) == [bound EXCEPT !.tried_overlay = TRUE]

\* mount_overlay_child (overlay.rs:124-179)
mount_overlay_child(mount_point, relative, stock_root, stock, kindOf, fsctx_ok, classic_ok, bind_ok) ==
    LET lower_paths == [i \in 1..NumModules |-> Join(module_roots[i], relative)]
        base == [mount_point |-> mount_point, relative |-> relative, stock_root |-> stock_root,
                 stock |-> stock, lower_paths |-> lower_paths,
                 kinds |-> [i \in 1..NumModules |-> kindOf[lower_paths[i]]],
                 action |-> "skip", layers |-> <<>>, tried_overlay |-> FALSE, ok |-> TRUE]
        b == bind_mount(stock_root, mount_point, bind_ok)
        bound == [base EXCEPT !.action = IF b.ok THEN "bind" ELSE "fail", !.ok = b.ok]
        col == CollectLower(lower_paths, kindOf, <<>>)
        ovl == mount_overlayfs(col.lower_dirs, stock_root, "none", "none", fsctx_ok, classic_ok)
    IN  IF ~\E i \in 1..NumModules : kindOf[lower_paths[i]] # "none" THEN bound
        ELSE IF stock # "dir" THEN base
        ELSE IF col.conflict THEN base
        ELSE IF col.lower_dirs = <<>> THEN base
        ELSE IF ovl.ok
             THEN [base EXCEPT !.action = "overlay", !.layers = ovl.lowerdir, !.tried_overlay = TRUE]
        ELSE ChildOverlayFailed(bound)

\* Option<&str>: Some(s) is s and None is the empty sequence, which no mount point is;
\* None sorts before every Some(s), as Option's Ord has it
None == <<>>

\* Path::to_str : None unless the path is valid UTF-8 (the byte 0xFF never is)
to_str(p) == IF \E i \in DOMAIN p : p[i] = "xFF" THEN None ELSE p

\* the filter of overlay.rs:199-201
InsideRoot(p) == PathStartsWith(p, root) /\ ~PathStartsWith(root, p)

\* the snapshot of overlay.rs:196-205
Snapshot(table) ==
    LET points == [i \in 1..Len(table) |-> table[i].mount_point]
        inside == { p \in MountPoints : InsideRoot(p) }
        kept == SelectSeqOf(points, inside)
    IN  Dedup(SortStrs([i \in 1..Len(kept) |-> to_str(kept[i])]))

\* unmount(root, DETACH): the topmost mount on root goes, with all that is mounted on it
RECURSIVE LastAt(_, _)
LastAt(table, p) ==
    IF table = <<>> THEN 0
    ELSE IF table[Len(table)].mount_point = p THEN Len(table)
    ELSE LastAt(SubSeq(table, 1, Len(table) - 1), p)

Detach(table, p) ==
    LET top == LastAt(table, p)
    IN  IF top = 0 THEN table
        ELSE SubSeq(table, 1, top - 1)
             \o SelectSeq(SubSeq(table, top + 1, Len(table)),
                          LAMBDA m : ~PathStartsWith(m.mount_point, p))

\* umount_dir (overlay.rs:242-246)
umount_dir(table, src, umount_ok) ==
    [ok |-> umount_ok, table |-> IF umount_ok THEN Detach(table, src) ELSE table]

RootOverlayMounted ==
    \E i \in 1..Len(mounts) : mounts[i].mount_point = root /\ mounts[i].fs = "overlay"

MountedByCall == { i \in 1..Len(mounts) : mounts[i].fs # "stock" }

\* ---- the steps of mount_overlay (overlay.rs:181-240)
\* a mount_overlay that mounts the root overlay without having read the mount table
AfterChdir_NoRead(ok) == IF ok THEN "root" ELSE "done"

\* overlay.rs:189: the ? of set_current_dir, then the read of the mount table
AfterChdir(ok) == IF ok THEN "snapshot" ELSE "done"

\* set_current_dir(root)?
MO_Chdir ==
    /\ ov_pc = "chdir"
    /\ \E ok \in BOOLEAN :
         /\ ov_pc' = AfterChdir(ok)
         /\ ov_ret' = IF ov_pc' = "done" THEN "err" ELSE ov_ret
    /\ UNCHANGED <<mounts, pre, mount_seq, idx, reads, child, revert, root_mount>>

\* Process::myself()?.mountinfo()?, filter, sort, dedup
MO_Snapshot ==
    /\ ov_pc = "snapshot"
    /\ \E ok \in BOOLEAN :
         IF ok
         THEN ov_pc' = "root" /\ ov_ret' = ov_ret /\ reads' = reads + 1
              /\ mount_seq' = Snapshot(mounts)
         ELSE ov_pc' = "done" /\ ov_ret' = "err" /\ UNCHANGED <<reads, mount_seq>>
    /\ UNCHANGED <<mounts, pre, idx, child, revert, root_mount>>

\* a mount_overlay that goes on to the snapshot entries whatever the root mount did
AfterRootMount_Continue(ok) == "children"

\* the ? of overlay.rs:216: an error of the root mount is the error of mount_overlay
AfterRootMount(ok) == IF ok THEN "children" ELSE "done"

\* mount_overlayfs(module_roots, root, upperdir, workdir, root)?
MO_MountRoot ==
    /\ ov_pc = "root"
    /\ \E upperdir \in {"none", "missing", "exists"}, workdir \in {"none", "missing", "exists"},
          fsctx_ok \in BOOLEAN, classic_ok \in BOOLEAN :
         LET r == mount_overlayfs(module_roots, root, upperdir, workdir, fsctx_ok, classic_ok)
         IN  /\ root_mount' = IF fsctx_ok THEN "fsctx" ELSE IF classic_ok THEN "classic"
                               ELSE "failed"
             /\ mounts' = IF r.ok THEN Append(mounts, Mount(root, "overlay", r.lowerdir, r.rw))
                          ELSE mounts
             /\ ov_pc' = AfterRootMount(r.ok)
             /\ IF ov_pc' = "children"
                THEN idx' = 1 /\ ov_ret' = ov_ret
                ELSE idx' = idx /\ ov_ret' = "err"
    /\ UNCHANGED <<pre, mount_seq, reads, child, revert>>

\* what a successful child step leaves in the mount table
ChildMounts(table, r) ==
    IF r.action = "overlay" THEN Append(table, Mount(r.mount_point, "overlay", r.layers, FALSE))
    ELSE IF r.action = "bind" THEN Append(table, Mount(r.mount_point, "bind", <<r.stock_root>>, FALSE))
    ELSE table

\* a failure branch that bails without reverting
ChildFailed_NoRevert(table, umount_ok) ==
    [table |-> table, revert |-> "none"]

\* the failure branch of the loop (overlay.rs:234-236): revert, then bail
ChildFailed(table, umount_ok) ==
    LET u == umount_dir(table, root, umount_ok)
    IN  [table |-> u.table, revert |-> IF u.ok THEN "ok" ELSE "failed"]

\* a loop that stays on the entry it has just visited
NextEntry_Same(i) == i

\* overlay.rs:217: the iterator moves to the next entry of mount_seq
NextEntry(i) == i + 1

\* one iteration of the for loop (overlay.rs:217-238)
MO_Child ==
    /\ ov_pc = "children"
    /\ idx <= Len(mount_seq)
    /\ mount_seq[idx] # None
    /\ LET mount_point == mount_seq[idx]
           relative == Replacen(mount_point, root)
           stock_root == <<".">> \o relative
           queried == { Join(module_roots[i], relative) : i \in 1..NumModules }
       IN  \E stock \in Kinds, kindOf \in [queried -> Kinds],
              fsctx_ok \in BOOLEAN, classic_ok \in BOOLEAN, bind_ok \in BOOLEAN,
              umount_ok \in BOOLEAN :
             IF stock = "none"
             THEN /\ child' = [NoChild EXCEPT !.mount_point = mount_point,
                                   !.relative = relative, !.stock_root = stock_root,
                                   !.action = "skip"]
                  /\ idx' = NextEntry(idx)
                  /\ UNCHANGED <<mounts, ov_pc, ov_ret, revert>>
             ELSE LET r == mount_overlay_child(mount_point, relative, stock_root, stock,
                                               kindOf, fsctx_ok, classic_ok, bind_ok)
                  IN  /\ child' = r
                      /\ IF r.ok
                         THEN /\ mounts' = ChildMounts(mounts, r)
                              /\ idx' = NextEntry(idx)
                              /\ UNCHANGED <<ov_pc, ov_ret, revert>>
                         ELSE LET f == ChildFailed(mounts, umount_ok)
                              IN  /\ mounts' = f.table
                                  /\ revert' = f.revert
                                  /\ ov_pc' = "done" /\ ov_ret' = "err"
                                  /\ idx' = idx
    /\ UNCHANGED <<pre, mount_seq, reads, root_mount>>

\* overlay.rs:218-220: an entry that is None is passed over
MO_SkipNone ==
    /\ ov_pc = "children"
    /\ idx <= Len(mount_seq)
    /\ mount_seq[idx] = None
    /\ idx' = idx + 1
    /\ UNCHANGED <<mounts, pre, mount_seq, reads, child, revert, ov_pc, ov_ret, root_mount>>

\* the loop is over: Ok(())
MO_ReturnOk ==
    /\ ov_pc = "children"
    /\ idx > Len(mount_seq)
    /\ ov_pc' = "done" /\ ov_ret' = "ok"
    /\ UNCHANGED <<mounts, pre, mount_seq, idx, reads, child, revert, root_mount>>

\* no call of mount_overlayfs is under way
OverlayfsIdle == ofs = [pc |-> "idle"]

\* no iteration of the loop is under way
ChildIdle == ch = [pc |-> "idle"]

\* the notifier is not running
NotifyIdle == nt = [pc |-> "idle"]

\* the run component before run is entered
RunIdle ==
    /\ run_pc = "idle"
    /\ listing = <<>>
    /\ partitions = <<>>
    /\ active_modules = {}
    /\ pending = {}
    /\ modes = << >>
    /\ part_dirs = << >>
    /\ partition_overlay_map = << >>
    /\ magic_mount_modules = {}
    /\ overlay_calls = << >>
    /\ engine_calls = <<>>
    /\ tempdir = "none"
    /\ run_ret = "none"
    /\ sync_result = "none"
    /\ failure = "none"

NoCall == [verb |-> "none", args |-> <<>>, res |-> "none", issued |-> FALSE,
           op |-> "none", payload |-> <<>>]

\* the Variant A component before any verb is called
PoaceaeIdle ==
    /\ pa_last = NoCall
    /\ hidden = {}
    /\ before_pair = {}
    /\ pair = "none"

NoStatus == [open_ok |-> FALSE, ioctl_ok |-> FALSE, version |-> 0, status |-> "none"]

\* the Variant B component before any operation is called
HymoIdle ==
    /\ hy_pc = "idle"
    /\ hy_op = "none"
    /\ hy_stage = "none"
    /\ hy_walk = <<>>
    /\ hy_rules = <<>>
    /\ hy_i = 0
    /\ hy_issued = <<>>
    /\ hy_status = NoStatus
    /\ hy_ret = "none"
    /\ version_queried = FALSE
    /\ hy_opens = 0

\* the storage population before the first run: the source holds the tool's own module
\* directory, the image and the storage root hold no module
SyncIdle ==
    /\ sy_pc = "setup"
    /\ source = [id \in {"meta-hybrid"} |-> [kind |-> "builtin_dir", marked |-> FALSE]]
    /\ image = << >>
    /\ sy_backend = "none"
    /\ mnt = << >>
    /\ scanned = {}
    /\ placed = {}
    /\ sy_ret = "none"

\* the storage component before run reaches it
StorageIdle ==
    /\ st_pc = "idle"
    /\ force_ext4 = FALSE
    /\ image_exists = FALSE
    /\ mnt_stack = <<>>
    /\ tmpfs_mount = "none"
    /\ xattr = "unprobed"
    /\ tmpfs_umount = "none"
    /\ loop_attached = FALSE
    /\ image_mount = "none"
    /\ st_ret = "none"

\* the mount_overlay component before mount_overlay is entered
OverlayIdle ==
    /\ ov_pc = "idle"
    /\ mounts = <<>>
    /\ pre = <<>>
    /\ mount_seq = <<>>
    /\ idx = 0
    /\ reads = 0
    /\ child = NoChild
    /\ revert = "none"
    /\ ov_ret = "none"
    /\ root_mount = "none"

InitOverlay ==
    /\ RunIdle
    /\ StorageIdle
    /\ PoaceaeIdle
    /\ HymoIdle
    /\ SyncIdle
    /\ OverlayfsIdle
    /\ ChildIdle
    /\ NotifyIdle
    /\ ov_pc = "chdir"
    /\ \E points \in SeqsUpTo(MountPoints, MaxMounts) :
         mounts = [i \in 1..Len(points) |-> StockMount(points[i])]
    /\ pre = mounts
    /\ mount_seq = <<>>
    /\ idx = 0
    /\ reads = 0
    /\ child = NoChild
    /\ revert = "none"
    /\ ov_ret = "none"
    /\ root_mount = "none"

NextOverlay ==
    \/ MO_Chdir /\ UNCHANGED not_ov
    \/ MO_Snapshot /\ UNCHANGED not_ov
    \/ MO_MountRoot /\ UNCHANGED not_ov
    \/ MO_Child /\ UNCHANGED not_ov
    \/ MO_SkipNone /\ UNCHANGED not_ov
    \/ MO_ReturnOk /\ UNCHANGED not_ov

SpecOverlay == InitOverlay /\ [][NextOverlay]_vars

(***************************************************************************)
(* Claims about mount_overlay                                              *)
(***************************************************************************)
\* C1 (as stated): whenever mount_overlay has returned an error the mount table is
\* what it was before the call, and whenever it has returned Ok the root overlay is
\* mounted on root, whatever the outcome of every mount, bind and unmount syscall.
C1_ErrorMeansReverted ==
    /\ ov_ret = "err" => mounts = pre
    /\ ov_ret = "ok" => RootOverlayMounted

\* C1 (amended): an error return leaves the mount table as it was before the call
\* unless the revert unmount itself failed, in which case (and only then) the error
\* is reported with the root overlay still mounted; Ok means the overlay is mounted.
C1_RevertedUnlessUmountFails ==
    /\ (ov_ret = "err" /\ revert # "failed") => mounts = pre
    /\ (ov_ret = "err" /\ revert = "failed") => RootOverlayMounted
    /\ ov_ret = "err" => (RootOverlayMounted <=> revert = "failed")
    /\ ov_ret = "ok" => (RootOverlayMounted /\ revert = "none")

\* a child failed after an earlier child had been mounted, and the revert undid both
C1_Witness ==
    /\ ov_ret = "err"
    /\ revert = "ok"
    /\ idx >= 2
    /\ child.action = "fail"
    /\ mounts = pre

\* C17: if both the filesystem-context path and the classic mount fail for the root
\* overlay, mount_overlay returns an error without visiting any entry of the snapshot
\* and without any bind mount, child overlay mount or unmount: the mount table is as
\* it was before the call.
C17_RootFailureTouchesNothing ==
    root_mount = "failed" =>
        /\ ov_pc = "done"
        /\ ov_ret = "err"
        /\ idx = 0
        /\ child = NoChild
        /\ revert = "none"
        /\ mounts = pre

\* the root mount failed on both paths although the snapshot held entries to visit
C17_Witness ==
    /\ root_mount = "failed"
    /\ ov_ret = "err"
    /\ Len(mount_seq) >= 2
    /\ mounts = pre

\* the mount points of the table mount_overlay was called with that lie strictly
\* inside root by whole path components
StrictlyInside ==
    { pre[i].mount_point : i \in { j \in 1..Len(pre) :
          LET c == Components(pre[j].mount_point)
          IN  Len(c) > Len(Components(root))
              /\ SubSeq(c, 1, Len(Components(root))) = Components(root) } }

\* C20: the mount snapshot computed by mount_overlay contains exactly the mount points
\* of the process mount table that lie strictly inside root by whole path components
\* (root itself, its ancestors and paths that only share root as a string prefix are
\* excluded), each exactly once, in ascending lexicographic order.
C20_SnapshotExact ==
    reads >= 1 =>
        /\ { mount_seq[i] : i \in 1..Len(mount_seq) } = StrictlyInside
        /\ \A i, j \in 1..Len(mount_seq) : i < j => StrLess(mount_seq[i], mount_seq[j])

\* C21: in each mount_overlay call the mount table is read exactly once, after the
\* working directory is changed to root and before the root overlay is mounted; the
\* mounts made or removed later in the call never change the children processed, which
\* are those of the table as it was read.
C21_TableReadOnce ==
    /\ reads <= 1
    /\ ov_pc \in {"chdir", "snapshot"} => reads = 0 /\ root_mount = "none" /\ mounts = pre
    /\ root_mount # "none" => reads = 1
    /\ ov_ret = "ok" => reads = 1
    /\ reads = 1 => mount_seq = Snapshot(pre)
    /\ child # NoChild => child.mount_point \in { mount_seq[i] : i \in 1..Len(mount_seq) }
    /\ idx <= Len(mount_seq) + 1

\* a child mount changed the table under root and the next child was still taken from
\* the snapshot read before the root overlay was mounted
C21_Witness ==
    /\ reads = 1
    /\ ov_ret = "ok"
    /\ Len(mount_seq) = 2
    /\ Len(mounts) = Len(pre) + 3

\* the child visited last had its overlay mount fail and its bind mount succeed
FellBackToBind == child.tried_overlay /\ child.action = "bind"

\* C28: if the child overlay mount for a snapshot mount point fails but the bind mount
\* of the stock directory onto it succeeds, the child step counts as success: the root
\* overlay is not unmounted, the loop goes on to the remaining children, and
\* mount_overlay can still return Ok.
C28_BindFallbackIsSuccess ==
    FellBackToBind =>
        /\ child.ok
        /\ revert = "none"
        /\ RootOverlayMounted
        /\ ov_ret # "err"
        /\ mounts[Len(mounts)] = Mount(child.mount_point, "bind", <<child.stock_root>>, FALSE)
        /\ idx >= 2 /\ mount_seq[idx - 1] = child.mount_point
        /\ ov_pc = "children" \/ (ov_pc = "done" /\ ov_ret = "ok")

\* mount_overlay returned Ok after the second of two children fell back to the bind mount
C28_Witness ==
    /\ FellBackToBind
    /\ Len(mount_seq) = 2
    /\ ov_ret = "ok"

\* what an iteration on mount_point can leave as its record, whatever the rest of the
\* call did
ChildOutcomes(mount_point) ==
    LET relative == Replacen(mount_point, root)
        stock_root == <<".">> \o relative
        queried == { Join(module_roots[i], relative) : i \in 1..NumModules }
    IN  { [NoChild EXCEPT !.mount_point = mount_point, !.relative = relative,
                          !.stock_root = stock_root, !.action = "skip"] }
        \cup { mount_overlay_child(mount_point, relative, stock_root, stock, kindOf,
                                   fsctx_ok, classic_ok, bind_ok) :
                   stock \in Kinds \ {"none"}, kindOf \in [queried -> Kinds],
                   fsctx_ok \in BOOLEAN, classic_ok \in BOOLEAN, bind_ok \in BOOLEAN }

\* the same for every mount point the loop can stand on
OutcomesAt ==
    [mount_point \in { p \in MountPoints : InsideRoot(p) /\ to_str(p) # None } |->
        ChildOutcomes(mount_point)]

\* the snapshot is in strictly ascending order
SnapshotAscending ==
    \A i, j \in 1..Len(mount_seq) : i < j => StrLess(mount_seq[i], mount_seq[j])

\* the root overlay was mounted, so the loop over the snapshot was entered
LoopEntered == root_mount \in {"fsctx", "classic"}

\* C29 as stated: the children are processed in the ascending order of the frozen
\* snapshot, each at most once, and whether a child is processed does not depend on the
\* outcome of any other child: once the call is over every entry has been visited.
C29_EveryChildProcessed ==
    /\ SnapshotAscending
    /\ (LoopEntered /\ ov_pc = "done") => idx > Len(mount_seq)

\* C29, amended: every visit is to the entry the loop stands on, and it moves the loop
\* to the next entry or ends the call, so the entries are visited in the ascending
\* order of the frozen snapshot, each at most once; the action taken for a child is one
\* of those its own files and syscalls allow, whatever happened to the others; a child
\* is processed if and only if no child before it failed: the call ends at the first
\* failed child, and it returns Ok exactly when every entry has been visited.
C29_OrderedUntilFirstFailure ==
    /\ [](/\ SnapshotAscending
          /\ LoopEntered => idx \in 1..(Len(mount_seq) + 1)
          /\ (LoopEntered /\ ov_pc = "done") =>
                IF ov_ret = "ok" THEN idx > Len(mount_seq)
                ELSE /\ idx <= Len(mount_seq)
                     /\ child.mount_point = mount_seq[idx]
                     /\ ~child.ok)
    /\ [][(ov_pc = "children" /\ child' # child) =>
             /\ child'.mount_point = mount_seq[idx]
             /\ child' \in OutcomesAt[mount_seq[idx]]
             /\ mount_seq' = mount_seq
             /\ IF child'.ok THEN idx' = idx + 1 /\ ov_pc' = "children"
                ELSE idx' = idx /\ ov_pc' = "done" /\ ov_ret' = "err"]_vars

\* the first of two children failed and the second was never processed
C29_Witness ==
    /\ ov_pc = "done"
    /\ ov_ret = "err"
    /\ Len(mount_seq) = 2
    /\ idx = 1
    /\ ~child.ok
    /\ \A i \in 1..Len(mounts) : mounts[i].mount_point # mount_seq[2] \/ mounts[i].fs = "stock"

\* C35: whenever mount_overlay returns Ok, every mount point of the snapshot has had a
\* mount re-established on top of the root overlay (a child overlay or a bind of its
\* stock content): no sub-mount that existed before the call is left shadowed.
C35_NoSubMountShadowed ==
    ov_ret = "ok" =>
        \A k \in 1..Len(mount_seq) :
            mount_seq[k] # None =>
                \E i \in 1..Len(mounts), j \in 1..Len(mounts) :
                    /\ i < j
                    /\ mounts[i].mount_point = root /\ mounts[i].fs = "overlay"
                    /\ mounts[j].mount_point = mount_seq[k]
                    /\ mounts[j].fs \in {"overlay", "bind"}

(***************************************************************************)
(* overlay.rs: one call of mount_overlayfs, syscall by syscall             *)
(***************************************************************************)
\* slice::join(":") : the strings with a colon between them
RECURSIVE JoinColon(_)
JoinColon(strs) ==
    IF strs = <<>> THEN <<>>
    ELSE IF Len(strs) = 1 THEN strs[1]
    ELSE strs[1] \o <<":">> \o JoinColon(Tail(strs))

\* the fields of a string between the occurrences of a separator
RECURSIVE SplitOn(_, _, _, _)
SplitOn(s, sep, cur, acc) ==
    IF s = <<>> THEN Append(acc, cur)
    ELSE IF Head(s) = sep THEN SplitOn(Tail(s), sep, <<>>, Append(acc, cur))
    ELSE SplitOn(Tail(s), sep, Append(cur, Head(s)), acc)

\* the layers an overlay takes from its lowerdir option, topmost first
Layers(option) == SplitOn(option, ":", <<>>, <<>>)

\* a lowerdir option that names the stock directory first
lowerdir_config_StockFirst(lower_dirs, lowest) == JoinColon(<<lowest>> \o lower_dirs)

\* overlay.rs:26-31: the lower directories, then lowest, joined by ":"
lowerdir_config(lower_dirs, lowest) == JoinColon(lower_dirs \o <<lowest>>)

\* Option<PathBuf> arguments: None, or a path that exists or does not
OptPaths(p) ==
    { [some |-> FALSE, path |-> <<>>, exists |-> FALSE] }
        \cup { [some |-> TRUE, path |-> p, exists |-> e] : e \in BOOLEAN }

\* overlay.rs:40-45: .filter(|p| p.exists()).map(|e| e.display().to_string())
FilterExists(opt) ==
    IF opt.some /\ opt.exists THEN [some |-> TRUE, str |-> opt.path]
    ELSE [some |-> FALSE, str |-> <<>>]

\* overlay.rs:51 and 70: if let (Some(upper), Some(work))
BothDirs(upperdir, workdir) == FilterExists(upperdir).some /\ FilterExists(workdir).some

\* overlay.rs:14: crate::defs::KSU_OVERLAY_SOURCE, the source name of both mount paths
KSU_OVERLAY_SOURCE == <<"K", "S", "U">>

\* overlay.rs:48-64: the syscalls of the filesystem-context path, in order
FsSteps(upperdir, workdir) ==
    <<"fsopen", "lowerdir">>
        \o (IF BothDirs(upperdir, workdir) THEN <<"upperdir", "workdir">> ELSE <<>>)
        \o <<"source", "create", "fsmount", "move_mount">>

\* the string an fsconfig_set_string step hands to the filesystem context
FsValue(step, lower_dirs, lowest, upperdir, workdir) ==
    CASE step = "lowerdir" -> lowerdir_config(lower_dirs, lowest)
      [] step = "upperdir" -> FilterExists(upperdir).str
      [] step = "workdir" -> FilterExists(workdir).str
      [] step = "source" -> KSU_OVERLAY_SOURCE

\* overlay.rs:69-72: the data of the classic mount
ClassicData(lower_dirs, lowest, upperdir, workdir) ==
    LET data == <<"lowerdir", "=">> \o lowerdir_config(lower_dirs, lowest)
    IN  IF BothDirs(upperdir, workdir)
        THEN data \o <<",", "upperdir", "=">> \o FilterExists(upperdir).str
                  \o <<",", "workdir", "=">> \o FilterExists(workdir).str
        ELSE data

\* the options mount(2) takes from its data: key=value fields between commas
ParseData(data) ==
    LET fields == SplitOn(data, ",", <<>>, <<>>)
    IN  [i \in 1..Len(fields) |-> <<fields[i][1], SubSeq(fields[i], 3, Len(fields[i]))>>]

\* a mount_overlayfs that gives up when the last step of the first path fails
AfterFsFailure_GiveUp(step) == IF step = "move_mount" THEN "finish" ELSE "classic"

\* overlay.rs:67-68: whatever step failed, the classic mount is tried
AfterFsFailure(step) == "classic"

\* the call as it is entered
EnterOverlayfs(lower_dirs, lowest, upperdir, workdir, dest) ==
    [pc |-> "fs", lower_dirs |-> lower_dirs, lowest |-> lowest, upperdir |-> upperdir,
     workdir |-> workdir, dest |-> dest, step |-> 1, fs_opts |-> <<>>, failed_at |-> "none",
     classic |-> <<>>, mounted |-> <<>>, ret |-> "none"]

\* one syscall of the closure of overlay.rs:47-65
OF_FsStep ==
    /\ ofs.pc = "fs"
    /\ LET steps == FsSteps(ofs.upperdir, ofs.workdir)
           name == steps[ofs.step]
           sets == name \in {"lowerdir", "upperdir", "workdir", "source"}
           opts == IF sets
                   THEN Append(ofs.fs_opts, <<name, FsValue(name, ofs.lower_dirs, ofs.lowest,
                                                            ofs.upperdir, ofs.workdir)>>)
                   ELSE ofs.fs_opts
       IN  \E ok \in BOOLEAN :
             IF ~ok
             THEN ofs' = [ofs EXCEPT !.failed_at = name, !.pc = AfterFsFailure(name)]
             ELSE IF ofs.step < Len(steps)
             THEN ofs' = [ofs EXCEPT !.step = ofs.step + 1, !.fs_opts = opts]
             ELSE ofs' = [ofs EXCEPT !.pc = "finish",
                              !.mounted = Append(ofs.mounted,
                                  [dest |-> ofs.dest, via |-> "fsctx", opts |-> opts])]

\* overlay.rs:69-80: the classic mount, with ?
OF_Classic ==
    /\ ofs.pc = "classic"
    /\ LET data == ClassicData(ofs.lower_dirs, ofs.lowest, ofs.upperdir, ofs.workdir)
           call == [source |-> KSU_OVERLAY_SOURCE, dest |-> ofs.dest, fstype |-> "overlay",
                    data |-> data]
       IN  \E ok \in BOOLEAN :
             IF ok
             THEN ofs' = [ofs EXCEPT !.pc = "finish", !.classic = Append(ofs.classic, call),
                              !.mounted = Append(ofs.mounted,
                                  [dest |-> ofs.dest, via |-> "classic",
                                   opts |-> Append(ParseData(data), <<"source", call.source>>)])]
             ELSE ofs' = [ofs EXCEPT !.pc = "done", !.ret = "err",
                              !.classic = Append(ofs.classic, call)]

\* overlay.rs:83-88: the result of send_unmountable is dropped, then Ok(())
OF_Return ==
    /\ ofs.pc = "finish"
    /\ ofs' = [ofs EXCEPT !.pc = "done", !.ret = "ok"]

InitOverlayfs ==
    /\ OverlayIdle
    /\ RunIdle
    /\ StorageIdle
    /\ PoaceaeIdle
    /\ HymoIdle
    /\ SyncIdle
    /\ ChildIdle
    /\ NotifyIdle
    /\ \E lower_dirs \in SeqsUpTo({ module_roots[i] : i \in 1..NumModules }, NumModules),
          target \in { <<root, root>>, <<<<".", "/", "a">>, <<"/", "s", "/", "a">>>> },
          upperdir \in OptPaths(<<"/", "u">>), workdir \in OptPaths(<<"/", "w">>) :
         ofs = EnterOverlayfs(lower_dirs, target[1], upperdir, workdir, target[2])

NextOverlayfs ==
    \/ OF_FsStep /\ UNCHANGED not_of
    \/ OF_Classic /\ UNCHANGED not_of
    \/ OF_Return /\ UNCHANGED not_of

SpecOverlayfs == InitOverlayfs /\ [][NextOverlayfs]_vars

\* the value an overlay mounted by the call has for an option, <<>> when it is not set
OptionOf(m, key) ==
    LET hits == { i \in 1..Len(m.opts) : m.opts[i][1] = key }
    IN  IF hits = {} THEN <<>> ELSE m.opts[CHOOSE i \in hits : TRUE][2]

\* C22: the lowerdir option of every overlay mounted by mount_overlayfs is the given
\* lower directories in their given order followed by the stock (lowest) directory as
\* the last element; upperdir and workdir are set only when both are supplied, and
\* otherwise neither is set.
C22_LowerdirOrder ==
    ofs.pc # "idle" =>
        \A i \in 1..Len(ofs.mounted) :
            LET m == ofs.mounted[i]
                set(key) == \E j \in 1..Len(m.opts) : m.opts[j][1] = key
            IN  /\ Layers(OptionOf(m, "lowerdir")) = ofs.lower_dirs \o <<ofs.lowest>>
                /\ Cardinality({ j \in 1..Len(m.opts) : m.opts[j][1] = "lowerdir" }) = 1
                /\ set("upperdir") <=> set("workdir")
                /\ set("upperdir") => ofs.upperdir.some /\ ofs.workdir.some
                /\ set("upperdir") => /\ OptionOf(m, "upperdir") = ofs.upperdir.path
                                      /\ OptionOf(m, "workdir") = ofs.workdir.path

\* an overlay was mounted over two lower directories given in descending order, with
\* an upperdir supplied and no workdir
C22_Witness ==
    /\ ofs.pc = "done"
    /\ Len(ofs.mounted) = 1
    /\ ofs.lower_dirs = <<module_roots[2], module_roots[1]>>
    /\ ofs.upperdir.some /\ ofs.upperdir.exists /\ ~ofs.workdir.some
    /\ OptionOf(ofs.mounted[1], "upperdir") = <<>>

\* C23: in mount_overlayfs a failure at any step of the filesystem-context path leads
\* to exactly one classic mount attempt on the same destination with the same lowerdir
\* list and the same upperdir and workdir when present; when the filesystem-context
\* path succeeds the classic mount is never attempted; at most one overlay is mounted
\* on the destination per call.
C23_ClassicFallback ==
    ofs.pc # "idle" =>
        /\ Len(ofs.mounted) <= 1
        /\ Len(ofs.classic) <= 1
        /\ ofs.failed_at = "none" => ofs.classic = <<>>
        /\ (ofs.failed_at # "none" /\ ofs.pc \in {"finish", "done"}) =>
              /\ Len(ofs.classic) = 1
              /\ ofs.classic[1].dest = ofs.dest
              /\ ofs.classic[1].source = KSU_OVERLAY_SOURCE
              /\ LET asked == ParseData(ofs.classic[1].data)
                     key(k) == { asked[j][2] : j \in { n \in 1..Len(asked) : asked[n][1] = k } }
                 IN  /\ key("lowerdir") = { lowerdir_config(ofs.lower_dirs, ofs.lowest) }
                     /\ key("upperdir") = IF BothDirs(ofs.upperdir, ofs.workdir)
                                          THEN { ofs.upperdir.path } ELSE {}
                     /\ key("workdir") = IF BothDirs(ofs.upperdir, ofs.workdir)
                                         THEN { ofs.workdir.path } ELSE {}
                     /\ \A j \in 1..Len(asked) :
                            asked[j][1] \in {"lowerdir", "upperdir", "workdir"}
                     /\ \A j \in 1..Len(ofs.fs_opts) :
                            ofs.fs_opts[j][1] # "source" => ofs.fs_opts[j][2] \in key(ofs.fs_opts[j][1])
        /\ \A i \in 1..Len(ofs.mounted) :
              /\ ofs.mounted[i].dest = ofs.dest
              /\ ofs.mounted[i].via = IF ofs.failed_at = "none" THEN "fsctx" ELSE "classic"

\* move_mount, the last step of the filesystem-context path, failed with upperdir and
\* workdir in use, and the one classic mount that followed succeeded
C23_Witness ==
    /\ ofs.pc = "done"
    /\ ofs.failed_at = "move_mount"
    /\ BothDirs(ofs.upperdir, ofs.workdir)
    /\ Len(ofs.classic) = 1
    /\ Len(ofs.mounted) = 1
    /\ ofs.ret = "ok"

(***************************************************************************)
(* overlay.rs: one iteration of the loop of mount_overlay, with the files   *)
(* it meets                                                                *)
(***************************************************************************)
\* the snapshot entries an iteration may stand on
ChildPoints == { <<"/", "s", "/", "a">>, <<"/", "s", "/", "b">>, <<"/", "s", "/", "a", "/", "b">> }

\* module_roots[i] with the relative path under it: the path of rel inside the module
InModule(i, relative) == module_roots[i] \o relative

\* the paths whose kind matters to the iteration: rel inside each module, and the
\* paths Path::new(lower).join(relative) names
FsPaths(relative) ==
    { InModule(i, relative) : i \in 1..NumModules }
        \cup { Join(module_roots[i], relative) : i \in 1..NumModules }

\* overlay.rs:221-222
relative_of(mount_point) == Replacen(mount_point, root)
stock_root_of(mount_point) == <<".">> \o relative_of(mount_point)

\* overlay.rs:223-225: the stock path does not exist, continue
CH_Continue ==
    /\ ch.pc = "visit"
    /\ ch.stock = "none"
    /\ ch' = [ch EXCEPT !.pc = "done",
                  !.result = [NoChild EXCEPT !.mount_point = ch.mount_point,
                                  !.relative = relative_of(ch.mount_point),
                                  !.stock_root = stock_root_of(ch.mount_point),
                                  !.action = "skip"]]

\* overlay.rs:226-233: mount_overlay_child
CH_Child ==
    /\ ch.pc = "visit"
    /\ ch.stock # "none"
    /\ \E fsctx_ok \in BOOLEAN, classic_ok \in BOOLEAN, bind_ok \in BOOLEAN :
         ch' = [ch EXCEPT !.pc = "done",
                    !.result = mount_overlay_child(ch.mount_point, relative_of(ch.mount_point),
                                                   stock_root_of(ch.mount_point), ch.stock,
                                                   ch.fs, fsctx_ok, classic_ok, bind_ok)]

InitChild ==
    /\ OverlayIdle
    /\ RunIdle
    /\ StorageIdle
    /\ PoaceaeIdle
    /\ HymoIdle
    /\ SyncIdle
    /\ OverlayfsIdle
    /\ NotifyIdle
    /\ \E mount_point \in ChildPoints, stock \in Kinds :
         \E fs \in [FsPaths(relative_of(mount_point)) -> Kinds] :
           ch = [pc |-> "visit", mount_point |-> mount_point, stock |-> stock, fs |-> fs,
                 result |-> NoChild]

NextChild ==
    \/ CH_Continue /\ UNCHANGED not_ch
    \/ CH_Child /\ UNCHANGED not_ch

SpecChild == InitChild /\ [][NextChild]_vars

\* the kind of the relative path inside the i-th module lower directory
InsideKind(i) == ch.fs[InModule(i, relative_of(ch.mount_point))]

\* what the iteration tried on the mount point
TriedBind == ch.result.action \in {"bind", "fail"}
TriedOverlay == ch.result.tried_overlay

\* C24: for a snapshot mount point whose relative path exists in none of the module
\* lower directories, the iteration bind-mounts the stock directory onto the mount
\* point and attempts no child overlay there.
C24_UntouchedIsRebound ==
    (/\ ch.pc = "done"
     /\ ch.stock = "dir"
     /\ \A i \in 1..NumModules : InsideKind(i) = "none")
        => TriedBind /\ ~TriedOverlay

\* C25: for a snapshot mount point where, for at least one module lower directory, the
\* relative path under it exists but is not a directory, no mount of any kind is
\* performed on the mount point and the entry counts as success.
C25_ConflictIsNoOp ==
    (/\ ch.pc = "done"
     /\ \E i \in 1..NumModules : InsideKind(i) = "file")
        => ~TriedBind /\ ~TriedOverlay /\ ch.result.ok

\* C26: for a snapshot mount point whose stock path does not resolve to a directory
\* (missing, or a non-directory), the entry is skipped: no bind mount and no overlay
\* mount is performed on the mount point.
C26_NoStockDirIsSkipped ==
    (ch.pc = "done" /\ ch.stock # "dir") => ~TriedBind /\ ~TriedOverlay

\* C27: for a snapshot mount point root/rel to which at least one module contributes,
\* the child overlay mounted there has as lower layers exactly the paths L/rel, for
\* those L of the ordered module lower directories for which L/rel is a directory
\* inside L, in the same order, followed by the stock path of rel as the lowest layer.
C27_ChildLayers ==
    (/\ ch.pc = "done"
     /\ ch.result.action = "overlay"
     /\ \E i \in 1..NumModules : InsideKind(i) = "dir")
        => ch.result.layers =
              SelectSeq([i \in 1..NumModules |-> InModule(i, relative_of(ch.mount_point))],
                        LAMBDA p : ch.fs[p] = "dir")
                  \o <<stock_root_of(ch.mount_point)>>

(***************************************************************************)
(* main.rs: run, from the scan of the populated storage root on             *)
(***************************************************************************)
MaxModules == 2     \* directory entries of the populated storage root

ModuleIds == <<"A", "B", "C", "D">>

\* defs.rs:14 / main.rs:64
BUILTIN_PARTITIONS == <<"system", "vendor", "product", "system_ext", "odm", "oem">>

\* the values of config.partitions considered: none, a new name, a repeated builtin
\* name, a name listed twice
ExtraConfigs == { <<>>, <<"my_ext">>, <<"system">>, <<"my_ext", "my_ext">> }

\* the partition directories a module directory may contain
PartDirs == {"system", "vendor", "my_ext"}

\* the values module_modes.get(id) may yield ("absent" is None)
ModeValues == {"absent", "auto", "magic", "other"}

\* main.rs:476: module_modes.get(&module_id).map(|s| s.as_str()).unwrap_or("auto")
ResolveMode(looked_up) == IF looked_up = "absent" THEN "auto" ELSE looked_up

Range(f) == { f[i] : i \in DOMAIN f }

\* main.rs:471-473
all_partitions == BUILTIN_PARTITIONS \o partitions

\* partition_overlay_map.entry(part).or_default().push(content_path)
Push(map, part, content_path) ==
    IF part \in DOMAIN map
    THEN [map EXCEPT ![part] = Append(@, content_path)]
    ELSE [q \in DOMAIN map \cup {part} |-> IF q = part THEN <<content_path>> ELSE map[q]]

\* an inner loop that files the module under every partition, without the is_dir test
PushParts_NoDirTest(map, parts, content_path, dirs) ==
    [q \in DOMAIN map \cup Range(parts) |->
       IF q \in Range(parts)
       THEN (IF q \in DOMAIN map THEN Append(map[q], content_path) ELSE <<content_path>>)
       ELSE map[q]]

\* the inner loop of main.rs:485-492 over all_partitions
RECURSIVE PushParts(_, _, _, _)
PushParts(map, parts, content_path, dirs) ==
    IF parts = <<>> THEN map
    ELSE PushParts(IF Head(parts) \in dirs THEN Push(map, Head(parts), content_path) ELSE map,
                   Tail(parts), content_path, dirs)

\* a classification that files every module under its partitions, whatever its mode
ClassifyModule_IgnoreMode(map, magic, parts, module_id, mode, dirs) ==
    [map |-> PushParts(map, parts, module_id, dirs),
     magic |-> IF mode = "magic" THEN magic \cup {module_id} ELSE magic]

\* the body of the classification loop (main.rs:476-493)
ClassifyModule(map, magic, parts, module_id, mode, dirs) ==
    LET is_magic == mode = "magic"
    IN  IF is_magic
        THEN [map |-> map, magic |-> magic \cup {module_id}]
        ELSE [map |-> PushParts(map, parts, module_id, dirs), magic |-> magic]

\* a fallback that forgets the modules of the failed partition
OverlayFailed_Dropped(magic, modules) == magic

\* the fallback of main.rs:507-513: every module of the failed partition goes to magic
OverlayFailed(magic, modules) == magic \cup Range(modules)

\* where run goes once classification is over
AfterClassify(map) == IF DOMAIN map = {} THEN "magic" ELSE "overlay"

\* what run leaves alone before the scan
BeforeScan ==
    UNCHANGED <<listing, partitions, active_modules, pending, modes, part_dirs,
                partition_overlay_map, magic_mount_modules, overlay_calls, engine_calls,
                tempdir>>

\* main.rs:419-421: load_config(&cli)? and utils::init_logger(..)?
R_Config ==
    /\ run_pc = "config"
    /\ \E outcome \in {"ok", "config", "logger"} :
         IF outcome = "ok"
         THEN run_pc' = "storage" /\ UNCHANGED <<run_ret, failure>>
         ELSE run_pc' = "done" /\ run_ret' = "err" /\ failure' = outcome
    /\ UNCHANGED sync_result
    /\ BeforeScan

\* main.rs:435-439: the cleanup of mnt_base and setup_storage(..)?
R_Storage ==
    /\ run_pc = "storage"
    /\ \E ok \in BOOLEAN :
         IF ok
         THEN run_pc' = "sync" /\ UNCHANGED <<run_ret, failure>>
         ELSE run_pc' = "done" /\ run_ret' = "err" /\ failure' = "storage"
    /\ UNCHANGED sync_result
    /\ BeforeScan

\* a run that gives up when the sync of the modules fails
AfterSync_Propagate(ok) == IF ok THEN "scan" ELSE "done"

\* main.rs:441-444: an error of sync_active_modules is logged and run goes on
AfterSync(ok) == "scan"

\* main.rs:441-444
R_Sync ==
    /\ run_pc = "sync"
    /\ \E ok \in BOOLEAN :
         /\ sync_result' = IF ok THEN "ok" ELSE "failed"
         /\ run_pc' = AfterSync(ok)
         /\ run_ret' = IF run_pc' = "done" THEN "err" ELSE run_ret
    /\ UNCHANGED failure
    /\ BeforeScan

\* main.rs:570-576: the exit status of the process
exit_status(ret) == IF ret = "err" THEN 1 ELSE 0

\* main.rs:451-463: the scan of the populated directory
R_Scan ==
    /\ run_pc = "scan"
    /\ \E read_ok \in BOOLEAN, dirs \in SUBSET Range(listing) :
         LET found == IF read_ok THEN dirs ELSE {}
         IN  /\ active_modules' = found
             /\ pending' = found
             /\ run_pc' = IF found = {} THEN AfterClassify(partition_overlay_map) ELSE "classify"
    /\ UNCHANGED <<listing, partitions, modes, part_dirs, partition_overlay_map,
                   magic_mount_modules, overlay_calls, engine_calls, tempdir, run_ret,
                   sync_result, failure>>

\* main.rs:475-494: one iteration of the loop over the HashMap active_modules, whose
\* iteration order is unspecified
R_Classify ==
    /\ run_pc = "classify"
    /\ \E module_id \in pending, looked_up \in ModeValues, dirs \in SUBSET PartDirs :
         LET mode == ResolveMode(looked_up)
             c == ClassifyModule(partition_overlay_map, magic_mount_modules, all_partitions,
                                 module_id, mode, dirs)
         IN  /\ partition_overlay_map' = c.map
             /\ magic_mount_modules' = c.magic
             /\ pending' = pending \ {module_id}
             /\ modes' = [q \in DOMAIN modes \cup {module_id} |->
                            IF q = module_id
                            THEN (IF mode = "magic" THEN "magic" ELSE "auto")
                            ELSE modes[q]]
             /\ part_dirs' = [q \in DOMAIN part_dirs \cup {module_id} |->
                                IF q = module_id
                                THEN (IF mode = "magic" THEN {} ELSE dirs)
                                ELSE part_dirs[q]]
             /\ run_pc' = IF pending' = {} THEN AfterClassify(c.map) ELSE "classify"
    /\ UNCHANGED <<listing, partitions, active_modules, overlay_calls, engine_calls,
                   tempdir, run_ret, sync_result, failure>>

AttemptedParts == DOMAIN overlay_calls

\* an overlay pass that gives up at the first partition that fails
AfterOverlay_StopOnFailure(remaining, ok) ==
    IF remaining = {} \/ ~ok THEN "magic" ELSE "overlay"

\* main.rs:500, 507-513: the loop goes on to the next partition whatever the result
AfterOverlay(remaining, ok) == IF remaining = {} THEN "magic" ELSE "overlay"

\* main.rs:500-514: one iteration of the loop over the HashMap partition_overlay_map
R_Overlay ==
    /\ run_pc = "overlay"
    /\ \E part \in DOMAIN partition_overlay_map \ AttemptedParts, ok \in BOOLEAN :
         LET modules == partition_overlay_map[part]
             overlay_paths == [i \in DOMAIN modules |-> <<modules[i], part>>]
             call == [layers |-> overlay_paths, ok |-> ok, n |-> 1]
         IN  /\ overlay_calls' = [q \in DOMAIN overlay_calls \cup {part} |->
                                    IF q = part THEN call ELSE overlay_calls[q]]
             /\ magic_mount_modules' =
                    IF ok THEN magic_mount_modules
                    ELSE OverlayFailed(magic_mount_modules, modules)
             /\ run_pc' = AfterOverlay(DOMAIN partition_overlay_map \ (AttemptedParts \cup {part}),
                                       ok)
    /\ UNCHANGED <<listing, partitions, active_modules, pending, modes, part_dirs,
                   partition_overlay_map, engine_calls, tempdir, run_ret, sync_result,
                   failure>>

\* a run that leaves the temp dir behind when the engine failed
AfterEngine_KeepOnFailure(ok) == IF ok THEN "cleanup" ELSE "done"

\* main.rs:527-536: the error of the engine is logged and the temp dir is cleaned
AfterEngine(ok) == "cleanup"

\* main.rs:516-523: the temp dir of the magic pass, or the end of run without it
R_Magic ==
    /\ run_pc = "magic"
    /\ IF magic_mount_modules = {}
       THEN /\ run_pc' = "done" /\ run_ret' = "ok"
            /\ UNCHANGED <<engine_calls, tempdir, failure>>
       ELSE \E select_ok \in BOOLEAN, ensure_ok \in BOOLEAN :
              IF ~select_ok
              THEN /\ run_pc' = "done" /\ run_ret' = "err" /\ failure' = "tempdir"
                   /\ UNCHANGED <<engine_calls, tempdir>>
              ELSE IF ~ensure_ok
              THEN /\ run_pc' = "done" /\ run_ret' = "err" /\ failure' = "tempdir"
                   /\ UNCHANGED <<engine_calls, tempdir>>
              ELSE /\ tempdir' = "created"
                   /\ run_pc' = "engine"
                   /\ UNCHANGED <<engine_calls, run_ret, failure>>
    /\ UNCHANGED <<listing, partitions, active_modules, pending, modes, part_dirs,
                   partition_overlay_map, magic_mount_modules, overlay_calls, sync_result>>

\* main.rs:525-534: magic_mount::mount_partitions
R_Engine ==
    /\ run_pc = "engine"
    /\ \E engine_ok \in BOOLEAN :
         /\ engine_calls' = Append(engine_calls,
                                   [modules |-> magic_mount_modules, ok |-> engine_ok])
         /\ run_pc' = AfterEngine(engine_ok)
         /\ run_ret' = IF run_pc' = "done" THEN "ok" ELSE run_ret
    /\ UNCHANGED <<listing, partitions, active_modules, pending, modes, part_dirs,
                   partition_overlay_map, magic_mount_modules, overlay_calls, sync_result,
                   tempdir, failure>>

\* main.rs:536-545: utils::cleanup_temp_dir and the end of run
R_Cleanup ==
    /\ run_pc = "cleanup"
    /\ tempdir' = "cleaned"
    /\ run_pc' = "done" /\ run_ret' = "ok"
    /\ UNCHANGED <<listing, partitions, active_modules, pending, modes, part_dirs,
                   partition_overlay_map, magic_mount_modules, overlay_calls, sync_result,
                   engine_calls, failure>>

InitRun ==
    /\ OverlayIdle
    /\ StorageIdle
    /\ PoaceaeIdle
    /\ HymoIdle
    /\ SyncIdle
    /\ OverlayfsIdle
    /\ ChildIdle
    /\ NotifyIdle
    /\ run_pc = "config"
    /\ \E n \in 0..MaxModules : listing = SubSeq(ModuleIds, 1, n)
    /\ partitions \in ExtraConfigs
    /\ active_modules = {}
    /\ pending = {}
    /\ modes = << >>
    /\ part_dirs = << >>
    /\ partition_overlay_map = << >>
    /\ magic_mount_modules = {}
    /\ overlay_calls = << >>
    /\ engine_calls = <<>>
    /\ tempdir = "none"
    /\ run_ret = "none"
    /\ sync_result = "none"
    /\ failure = "none"

NextRun ==
    \/ R_Config /\ UNCHANGED not_run
    \/ R_Storage /\ UNCHANGED not_run
    \/ R_Sync /\ UNCHANGED not_run
    \/ R_Scan /\ UNCHANGED not_run
    \/ R_Classify /\ UNCHANGED not_run
    \/ R_Overlay /\ UNCHANGED not_run
    \/ R_Magic /\ UNCHANGED not_run
    \/ R_Engine /\ UNCHANGED not_run
    \/ R_Cleanup /\ UNCHANGED not_run

SpecRun == InitRun /\ [][NextRun]_vars

(***************************************************************************)
(* Claims about classification and the magic fallback                      *)
(***************************************************************************)
InSomeLayerList(module_id) ==
    \E part \in DOMAIN partition_overlay_map : module_id \in Range(partition_overlay_map[part])

MagicModeModules == { m \in DOMAIN modes : modes[m] = "magic" }

\* C2: a module whose resolved mode is Magic is in no partition's layer list, at any
\* point of classification or after it; it is in the magic set.
C2_MagicNeverInLayerList ==
    \A m \in MagicModeModules : ~InSomeLayerList(m) /\ m \in magic_mount_modules

\* a Magic module has been classified next to an Auto module that sits in a layer list
C2_Witness ==
    /\ run_pc # "classify"
    /\ \E m \in MagicModeModules :
         \E a \in DOMAIN modes : modes[a] = "auto" /\ InSomeLayerList(a) /\ a # m

\* position of an id in the directory listing
RECURSIVE IndexOf(_, _)
IndexOf(seq, x) ==
    IF seq = <<>> THEN 0
    ELSE IF seq[Len(seq)] = x /\ ~\E i \in 1..(Len(seq) - 1) : seq[i] = x THEN Len(seq)
    ELSE IndexOf(SubSeq(seq, 1, Len(seq) - 1), x)

\* C3 (as stated): in every partition's layer list the modules stand in the order in
\* which the directory listing of the populated storage root yielded them.
C3_LayerOrderIsDiscoveryOrder ==
    \A part \in DOMAIN partition_overlay_map :
        LET layers == partition_overlay_map[part]
        IN  \A i \in DOMAIN layers, j \in DOMAIN layers :
                i < j => IndexOf(listing, layers[i]) <= IndexOf(listing, layers[j])

FailedPartitions == { part \in DOMAIN overlay_calls : ~overlay_calls[part].ok }

FallbackModules ==
    { m \in DOMAIN modes : \E part \in FailedPartitions : m \in Range(partition_overlay_map[part]) }

\* C4: whenever the magic mount engine is invoked, the module set it is handed is
\* exactly the Magic-mode modules plus the modules of the partitions whose
\* mount_overlay call failed; it is not invoked when that set is empty, and a run
\* that ends Ok with the set non-empty has invoked it.
C4_EngineInputExact ==
    /\ \A i \in DOMAIN engine_calls :
         /\ engine_calls[i].modules = MagicModeModules \cup FallbackModules
         /\ engine_calls[i].modules # {}
    /\ (run_pc = "done" /\ MagicModeModules \cup FallbackModules = {}) => engine_calls = <<>>
    /\ (run_ret = "ok" /\ MagicModeModules \cup FallbackModules # {}) => Len(engine_calls) = 1

\* the engine got a Magic-mode module together with a module of a failed partition,
\* while another partition had composed successfully
C4_Witness ==
    /\ Len(engine_calls) = 1
    /\ MagicModeModules # {}
    /\ FallbackModules # {}
    /\ engine_calls[1].modules = MagicModeModules \cup FallbackModules
    /\ \E part \in DOMAIN overlay_calls : overlay_calls[part].ok

\* C11: mount_overlay is attempted exactly once for every partition that has a
\* non-empty layer list, whether or not the composition of another partition failed;
\* once the overlay pass is over no such partition is left out.
C11_EveryPartitionAttemptedOnce ==
    /\ \A part \in AttemptedParts :
          /\ part \in DOMAIN partition_overlay_map
          /\ partition_overlay_map[part] # <<>>
          /\ overlay_calls[part].n = 1
    /\ run_pc \in {"magic", "done"} =>
          \A part \in DOMAIN partition_overlay_map :
              partition_overlay_map[part] # <<>> => part \in AttemptedParts

\* three partitions were attempted; one composition failed and another succeeded
C11_Witness ==
    /\ run_pc \in {"magic", "done"}
    /\ Cardinality(AttemptedParts) = 3
    /\ \E p \in AttemptedParts, q \in AttemptedParts :
          ~overlay_calls[p].ok /\ overlay_calls[q].ok

\* the modules classified so far whose resolved mode is Auto
AutoModeModules == { m \in DOMAIN modes : modes[m] = "auto" }

\* C13: for every module whose resolved mode is Auto and every partition name p of the
\* builtin-plus-extra list, the module is in the layer list of p if and only if
\* module/p is a directory.
C13_AutoListedIffPartDir ==
    \A m \in AutoModeModules :
        \A p \in Range(all_partitions) :
            (p \in DOMAIN partition_overlay_map /\ m \in Range(partition_overlay_map[p]))
                <=> p \in part_dirs[m]

\* a module that holds only vendor is in the vendor list alone, and a module that
\* holds only system is in the system list alone
C13_Witness ==
    /\ run_pc # "classify"
    /\ \E a \in AutoModeModules, b \in AutoModeModules :
          /\ part_dirs[a] = {"vendor"}
          /\ part_dirs[b] = {"system"}
          /\ partition_overlay_map["vendor"] = <<a>>
          /\ Range(partition_overlay_map["system"]) = {b}

\* some composition of the overlay pass failed
SomeOverlayFailed == \E part \in AttemptedParts : ~overlay_calls[part].ok

\* the magic mount engine was called and failed
EngineFailed == \E i \in DOMAIN engine_calls : ~engine_calls[i].ok

C32_EngineOnceTempDirCleaned ==
    /\ Len(engine_calls) <= 1
    /\ (engine_calls # <<>> \/ tempdir # "none") =>
          /\ AttemptedParts = DOMAIN partition_overlay_map
          /\ magic_mount_modules # {}
    /\ tempdir = "created" => run_pc \in {"engine", "cleanup"}
    /\ tempdir = "cleaned" <=> (run_pc = "done" /\ Len(engine_calls) = 1)
    /\ engine_calls # <<>> => tempdir # "none"
    /\ (run_pc = "done" /\ magic_mount_modules = {}) => tempdir = "none" /\ engine_calls = <<>>

\* the engine was called once, after both partitions had been attempted, it failed, and
\* the temp dir was cleaned all the same
C32_Witness ==
    /\ run_pc = "done"
    /\ Len(engine_calls) = 1
    /\ ~engine_calls[1].ok
    /\ tempdir = "cleaned"
    /\ Cardinality(AttemptedParts) >= 2

\* C33: at the end of a run no module content root is both a layer of a partition
\* overlay that was composed successfully and an input of the magic mount engine.
C33_ExactlyOneMechanism ==
    run_pc = "done" =>
        \A i \in DOMAIN engine_calls :
            \A part \in AttemptedParts :
                overlay_calls[part].ok =>
                    \A k \in DOMAIN overlay_calls[part].layers :
                        overlay_calls[part].layers[k][1] \notin engine_calls[i].modules

\* C34: for every configuration of extra partitions, each module content path occurs
\* at most once in the layer list of any partition.
C34_NoRepeatedLayer ==
    \A part \in DOMAIN partition_overlay_map :
        \A i \in DOMAIN partition_overlay_map[part] :
            \A j \in DOMAIN partition_overlay_map[part] :
                partition_overlay_map[part][i] = partition_overlay_map[part][j] => i = j

(***************************************************************************)
(* main.rs: the cleanup of mnt_base and setup_storage                      *)
(***************************************************************************)
MaxStale == 2       \* filesystems left on mnt_dir by earlier runs

\* unmount(mnt_dir, DETACH): the topmost filesystem goes
Unmount(stack, ok) == IF ok /\ stack # <<>> THEN SubSeq(stack, 1, Len(stack) - 1) ELSE stack

\* main.rs:438-441: unmount whatever is on mnt_base, result ignored
S_Clean ==
    /\ st_pc = "clean"
    /\ \E exists \in BOOLEAN, ok \in BOOLEAN :
         /\ mnt_stack # <<>> => exists
         /\ mnt_stack' = IF exists THEN Unmount(mnt_stack, ok) ELSE mnt_stack
    /\ st_pc' = "tmpfs"
    /\ UNCHANGED <<force_ext4, image_exists, tmpfs_mount, xattr, tmpfs_umount, loop_attached,
                   image_mount, st_ret>>

\* main.rs:224-231: force_ext4 skips tmpfs; otherwise utils::mount_tmpfs(mnt_dir)
S_Tmpfs ==
    /\ st_pc = "tmpfs"
    /\ IF force_ext4
       THEN st_pc' = "image" /\ UNCHANGED <<mnt_stack, tmpfs_mount>>
       ELSE \E ok \in BOOLEAN :
              IF ok
              THEN mnt_stack' = Append(mnt_stack, "tmpfs") /\ tmpfs_mount' = "ok"
                   /\ st_pc' = "probe"
              ELSE tmpfs_mount' = "failed" /\ st_pc' = "image" /\ UNCHANGED mnt_stack
    /\ UNCHANGED <<force_ext4, image_exists, xattr, tmpfs_umount, loop_attached, image_mount,
                   st_ret>>

\* main.rs:236-239: no xattr support: let _ = unmount(mnt_dir, DETACH), then fall through
ProbeUnsupported(stack, umount_ok) ==
    [stack |-> Unmount(stack, umount_ok),
     umount |-> IF umount_ok THEN "ok" ELSE "failed",
     pc |-> "image",
     ret |-> "none"]

\* a probe branch that returns tmpfs without looking at the probe
ProbeSupported_Always(supported) == "tmpfs"

\* main.rs:233-235: the probe decides whether tmpfs is the backend
ProbeSupported(supported) == IF supported THEN "tmpfs" ELSE "none"

\* main.rs:232-240
S_Probe ==
    /\ st_pc = "probe"
    /\ \E supported \in BOOLEAN, umount_ok \in BOOLEAN :
         IF ProbeSupported(supported) = "tmpfs"
         THEN /\ xattr' = IF supported THEN "supported" ELSE "unsupported"
              /\ st_ret' = "tmpfs" /\ st_pc' = "done"
              /\ UNCHANGED <<mnt_stack, tmpfs_umount>>
         ELSE LET u == ProbeUnsupported(mnt_stack, umount_ok)
              IN  /\ xattr' = "unsupported"
                  /\ mnt_stack' = u.stack
                  /\ tmpfs_umount' = u.umount
                  /\ st_pc' = u.pc
                  /\ st_ret' = u.ret
    /\ UNCHANGED <<force_ext4, image_exists, tmpfs_mount, loop_attached, image_mount>>

\* mount_ext4 (overlayfs/utils.rs:77-107): loop control, free device, attach, mount
mount_ext4(stack, loop_ok, attach_ok, mount_ok) ==
    IF ~loop_ok THEN [ok |-> FALSE, attached |-> FALSE, stack |-> stack]
    ELSE IF ~attach_ok THEN [ok |-> FALSE, attached |-> FALSE, stack |-> stack]
    ELSE IF ~mount_ok THEN [ok |-> FALSE, attached |-> TRUE, stack |-> stack]
    ELSE [ok |-> TRUE, attached |-> TRUE, stack |-> Append(stack, "ext4")]

\* an image step that goes to mount_image without looking for the image
ImageStep_NoCheck(exists) == "mount"

\* main.rs:245-247: bail when image_path does not exist
ImageStep(exists) == IF exists THEN "mount" ELSE "bail"

\* main.rs:243-253: the image must exist, then utils::mount_image
S_Image ==
    /\ st_pc = "image"
    /\ IF ImageStep(image_exists) = "bail"
       THEN /\ st_ret' = "err" /\ st_pc' = "done"
            /\ UNCHANGED <<mnt_stack, loop_attached, image_mount>>
       ELSE \E loop_ok \in BOOLEAN, attach_ok \in BOOLEAN, mount_ok \in BOOLEAN :
              LET m == mount_ext4(mnt_stack, loop_ok, attach_ok, mount_ok)
              IN  /\ mnt_stack' = m.stack
                  /\ loop_attached' = m.attached
                  /\ image_mount' = IF m.ok THEN "ok" ELSE "failed"
                  /\ st_ret' = IF m.ok THEN "ext4" ELSE "err"
                  /\ st_pc' = "done"
    /\ UNCHANGED <<force_ext4, image_exists, tmpfs_mount, xattr, tmpfs_umount>>

InitStorage ==
    /\ OverlayIdle
    /\ RunIdle
    /\ PoaceaeIdle
    /\ HymoIdle
    /\ SyncIdle
    /\ OverlayfsIdle
    /\ ChildIdle
    /\ NotifyIdle
    /\ st_pc = "clean"
    /\ force_ext4 \in BOOLEAN
    /\ image_exists \in BOOLEAN
    /\ \E n \in 0..MaxStale : mnt_stack = [i \in 1..n |-> "stale"]
    /\ tmpfs_mount = "none"
    /\ xattr = "unprobed"
    /\ tmpfs_umount = "none"
    /\ loop_attached = FALSE
    /\ image_mount = "none"
    /\ st_ret = "none"

NextStorage ==
    \/ S_Clean /\ UNCHANGED not_st
    \/ S_Tmpfs /\ UNCHANGED not_st
    \/ S_Probe /\ UNCHANGED not_st
    \/ S_Image /\ UNCHANGED not_st

SpecStorage == InitStorage /\ [][NextStorage]_vars

(***************************************************************************)
(* Claims about setup_storage                                              *)
(***************************************************************************)
MountedByStorage == SelectSeq(mnt_stack, LAMBDA fs : fs # "stale")

\* C5 (as stated): once tmpfs has mounted and the probe has reported no xattr support,
\* the call ends with the tmpfs unmounted and with the ext4-image backend as result.
C5_NoXattrYieldsExt4 ==
    (st_pc = "done" /\ tmpfs_mount = "ok" /\ xattr = "unsupported")
        => (st_ret = "ext4" /\ ~\E i \in DOMAIN mnt_stack : mnt_stack[i] = "tmpfs")

\* C5 (amended): once tmpfs has mounted and the probe has reported no xattr support,
\* the unmount of mnt_dir has been attempted (the tmpfs is gone when it succeeded), the
\* result is never the tmpfs backend, and it is the ext4-image backend exactly when the
\* image exists and its mount succeeded, an error otherwise.
C5_NoXattrNeverTmpfs ==
    (tmpfs_mount = "ok" /\ xattr = "unsupported")
        => /\ tmpfs_umount # "none"
           /\ st_ret # "tmpfs"
           /\ tmpfs_umount = "ok" => ~\E i \in DOMAIN mnt_stack : mnt_stack[i] = "tmpfs"
           /\ st_pc = "done" =>
                 /\ st_ret \in {"ext4", "err"}
                 /\ st_ret = "ext4" <=> (image_exists /\ image_mount = "ok")

\* tmpfs mounted, the probe said no, the tmpfs was unmounted and the image mounted
C5_Witness ==
    /\ st_pc = "done"
    /\ tmpfs_mount = "ok"
    /\ xattr = "unsupported"
    /\ tmpfs_umount = "ok"
    /\ st_ret = "ext4"
    /\ MountedByStorage = <<"ext4">>

\* C6 (as stated): whenever setup_storage has returned successfully, exactly one
\* filesystem mounted by this call is on mnt_dir.
C6_ExactlyOneFilesystem ==
    st_ret \in {"tmpfs", "ext4"} => Len(MountedByStorage) = 1

\* setup_storage has got to the ext4-image step: force_ext4 is set, the tmpfs mount
\* failed, or the tmpfs lacked xattr support
ReachedImageStep ==
    /\ st_pc \in {"image", "done"}
    /\ force_ext4 \/ tmpfs_mount = "failed" \/ xattr = "unsupported"

\* C18: when setup_storage reaches the ext4-image step and image_path does not exist
\* it fails with an error, no loop device is attached and the step mounts nothing;
\* when force_ext4 is set no tmpfs mount is attempted and the result is never tmpfs.
C18_MissingImageFails ==
    /\ (ReachedImageStep /\ ~image_exists) =>
          /\ ~loop_attached
          /\ image_mount = "none"
          /\ ~\E i \in DOMAIN mnt_stack : mnt_stack[i] = "ext4"
          /\ st_ret \in {"none", "err"}
          /\ st_pc = "done" => st_ret = "err"
    /\ force_ext4 =>
          /\ tmpfs_mount = "none"
          /\ xattr = "unprobed"
          /\ st_ret # "tmpfs"
          /\ ~\E i \in DOMAIN mnt_stack : mnt_stack[i] = "tmpfs"

\* the tmpfs lacked xattr support, was unmounted, and the image was missing
C18_Witness ==
    /\ st_pc = "done"
    /\ ~force_ext4
    /\ xattr = "unsupported"
    /\ tmpfs_umount = "ok"
    /\ ~image_exists
    /\ st_ret = "err"
    /\ MountedByStorage = <<>>

(***************************************************************************)
(* poaceae.rs: the Variant A verbs                                         *)
(***************************************************************************)
NAME_BUF == 256       \* [0u8; 256]
PAYLOAD_BUF == 512    \* [0u8; 512]

\* the byte lengths of the strings tried, around both buffer sizes
StrLens == {0, 255, 256, 511}

\* the byte the strings tried are made of: a letter, or NUL
FillBytes == {0, 97}

\* a str of n bytes
Str(n, b) == [i \in 1..n |-> b]

Strs == { Str(n, b) : n \in StrLens, b \in FillBytes }

\* buf[..bytes.len()].copy_from_slice(bytes) into a zeroed buffer
FillBuf(bytes, size) == [i \in 1..size |-> IF i <= Len(bytes) THEN bytes[i] ELSE 0]

\* format!("{}|{}", src, target).as_bytes()
Payload(src, target) == src \o <<124>> \o target

TooLong(verb, args) ==
    [verb |-> verb, args |-> args, res |-> "err", issued |-> FALSE, op |-> "none",
     payload |-> <<>>]

\* unsafe { op(fd, &buf) }?; Ok(())
Ioctl(verb, args, op, payload, ioctl_ok) ==
    [verb |-> verb, args |-> args, res |-> IF ioctl_ok THEN "ok" ELSE "err", issued |-> TRUE,
     op |-> op, payload |-> payload]

\* a hide whose length check lets a name of exactly 256 bytes through
hide_OffByOne(name, ioctl_ok) ==
    IF Len(name) > NAME_BUF THEN TooLong("hide", <<name>>)
    ELSE Ioctl("hide", <<name>>, "add_hide", FillBuf(name, NAME_BUF), ioctl_ok)

\* poaceae.rs:29-38
hide(name, ioctl_ok) ==
    IF Len(name) >= NAME_BUF THEN TooLong("hide", <<name>>)
    ELSE Ioctl("hide", <<name>>, "add_hide", FillBuf(name, NAME_BUF), ioctl_ok)

\* an unhide that sends the hide request once more
unhide_AddsAgain(name, ioctl_ok) ==
    IF Len(name) >= NAME_BUF THEN TooLong("unhide", <<name>>)
    ELSE Ioctl("unhide", <<name>>, "add_hide", FillBuf(name, NAME_BUF), ioctl_ok)

\* poaceae.rs:40-49
unhide(name, ioctl_ok) ==
    IF Len(name) >= NAME_BUF THEN TooLong("unhide", <<name>>)
    ELSE Ioctl("unhide", <<name>>, "del_hide", FillBuf(name, NAME_BUF), ioctl_ok)

\* poaceae.rs:51-61
redirect(src, target, ioctl_ok) ==
    LET bytes == Payload(src, target)
    IN  IF Len(bytes) >= PAYLOAD_BUF THEN TooLong("redirect", <<src, target>>)
        ELSE Ioctl("redirect", <<src, target>>, "add_redirect", FillBuf(bytes, PAYLOAD_BUF),
                   ioctl_ok)

\* poaceae.rs:63-72
unredirect(src, ioctl_ok) ==
    IF Len(src) >= NAME_BUF THEN TooLong("unredirect", <<src>>)
    ELSE Ioctl("unredirect", <<src>>, "del_redirect", FillBuf(src, NAME_BUF), ioctl_ok)

\* poaceae.rs:8-15: the fields of the #[repr(C)] record, in declaration order, with
\* the size and the alignment of their types
IoctlSpoofArgs ==
    << [field |-> "name", size |-> 256, align |-> 1],
       [field |-> "uid", size |-> 4, align |-> 4],
       [field |-> "gid", size |-> 4, align |-> 4],
       [field |-> "mode", size |-> 2, align |-> 2],
       [field |-> "mtime", size |-> 8, align |-> 8] >>

\* poaceae.rs:17: the size the record is asserted to have
SPOOF_ARGS_SIZE == 256 + 4 + 4 + 2 + 8 + 6

AlignUp(n, a) == ((n + a - 1) \div a) * a

\* the offset just past field k when the fields are laid out in order, each at the
\* next multiple of its alignment
RECURSIVE EndOffset(_, _)
EndOffset(fields, k) ==
    IF k = 0 THEN 0
    ELSE AlignUp(EndOffset(fields, k - 1), fields[k].align) + fields[k].size

\* the offset of field k
OffsetOf(fields, k) == AlignUp(EndOffset(fields, k - 1), fields[k].align)

\* the size of a record laid out with no padding at all
size_of_Packed(fields) == EndOffset([k \in DOMAIN fields |-> [fields[k] EXCEPT !.align = 1]],
                                   Len(fields))

\* std::mem::size_of of a #[repr(C)] record: the end of the last field, rounded up to
\* the largest alignment of its fields
size_of(fields) ==
    LET max_align == CHOOSE a \in { fields[k].align : k \in DOMAIN fields } :
                        \A k \in DOMAIN fields : fields[k].align <= a
    IN  AlignUp(EndOffset(fields, Len(fields)), max_align)

\* poaceae.rs:74-97: the payload is the IoctlSpoofArgs record
spoof(name, uid, gid, mode, mtime, ioctl_ok) ==
    IF Len(name) >= NAME_BUF THEN TooLong("spoof", <<name>>)
    ELSE Ioctl("spoof", <<name>>, "add_spoof",
               [name |-> FillBuf(name, NAME_BUF), uid |-> uid, gid |-> gid, mode |-> mode,
                mtime |-> mtime],
               ioctl_ok)

\* poaceae.rs:99-108
unspoof(name, ioctl_ok) ==
    IF Len(name) >= NAME_BUF THEN TooLong("unspoof", <<name>>)
    ELSE Ioctl("unspoof", <<name>>, "del_spoof", FillBuf(name, NAME_BUF), ioctl_ok)

\* poaceae.rs:110-120
merge(src, target, ioctl_ok) ==
    LET bytes == Payload(src, target)
    IN  IF Len(bytes) >= PAYLOAD_BUF THEN TooLong("merge", <<src, target>>)
        ELSE Ioctl("merge", <<src, target>>, "add_merge", FillBuf(bytes, PAYLOAD_BUF), ioctl_ok)

\* poaceae.rs:122-131
unmerge(src, ioctl_ok) ==
    IF Len(src) >= NAME_BUF THEN TooLong("unmerge", <<src>>)
    ELSE Ioctl("unmerge", <<src>>, "del_merge", FillBuf(src, NAME_BUF), ioctl_ok)

\* poaceae.rs:133-136: the argument is the gid itself, there is no buffer
set_trust(gid, ioctl_ok) == Ioctl("set_trust", <<>>, "set_trusted_gid", gid, ioctl_ok)

\* the string a C reader finds in a buffer: the bytes before the first NUL
CStr(buf) ==
    LET nuls == { i \in DOMAIN buf : buf[i] = 0 }
        first == IF nuls = {} THEN Len(buf) + 1
                 ELSE CHOOSE i \in nuls : \A j \in nuls : i <= j
    IN  SubSeq(buf, 1, first - 1)

\* the driver's side of add_hide and del_hide (poaceae.rs:19-20): a successful add_hide
\* puts the name in the hide-rule set, a successful del_hide takes it out, a failed
\* ioctl and every other request leave the set as it is
DriverHidden(set, call) ==
    IF ~call.issued \/ call.res # "ok" THEN set
    ELSE IF call.op = "add_hide" THEN set \cup {CStr(call.payload)}
    ELSE IF call.op = "del_hide" THEN set \ {CStr(call.payload)}
    ELSE set

\* a call that is neither hide nor unhide
NoPair ==
    /\ hidden' = hidden
    /\ before_pair' = hidden
    /\ pair' = "none"

PA_hide ==
    \E name \in Strs, ioctl_ok \in BOOLEAN :
        /\ pa_last' = hide(name, ioctl_ok)
        /\ hidden' = DriverHidden(hidden, hide(name, ioctl_ok))
        /\ before_pair' = hidden
        /\ pair' = "none"

PA_unhide ==
    \E name \in Strs, ioctl_ok \in BOOLEAN :
        LET call == unhide(name, ioctl_ok)
            follows == pa_last.verb = "hide" /\ pa_last.args = <<name>>
        IN  /\ pa_last' = call
            /\ hidden' = DriverHidden(hidden, call)
            /\ before_pair' = IF follows THEN before_pair ELSE hidden
            /\ pair' = IF ~follows THEN "none"
                       ELSE IF pa_last.res = "ok" /\ call.res = "ok" THEN "ok" ELSE "failed"

PA_redirect ==
    \E src \in Strs, target \in Strs, ioctl_ok \in BOOLEAN :
        pa_last' = redirect(src, target, ioctl_ok) /\ NoPair

PA_unredirect == \E src \in Strs, ioctl_ok \in BOOLEAN : pa_last' = unredirect(src, ioctl_ok) /\ NoPair

PA_spoof ==
    \E name \in Strs, uid \in {0, 1000}, mode \in {420}, mtime \in {0}, ioctl_ok \in BOOLEAN :
        pa_last' = spoof(name, uid, uid, mode, mtime, ioctl_ok) /\ NoPair

PA_unspoof == \E name \in Strs, ioctl_ok \in BOOLEAN : pa_last' = unspoof(name, ioctl_ok) /\ NoPair

PA_merge ==
    \E src \in Strs, target \in Strs, ioctl_ok \in BOOLEAN :
        pa_last' = merge(src, target, ioctl_ok) /\ NoPair

PA_unmerge == \E src \in Strs, ioctl_ok \in BOOLEAN : pa_last' = unmerge(src, ioctl_ok) /\ NoPair

PA_set_trust == \E gid \in {0, 1000}, ioctl_ok \in BOOLEAN : pa_last' = set_trust(gid, ioctl_ok) /\ NoPair

InitPoaceae ==
    /\ OverlayIdle
    /\ RunIdle
    /\ StorageIdle
    /\ HymoIdle
    /\ SyncIdle
    /\ PoaceaeIdle
    /\ OverlayfsIdle
    /\ ChildIdle
    /\ NotifyIdle

NextPoaceae ==
    \/ PA_hide /\ UNCHANGED not_pa
    \/ PA_unhide /\ UNCHANGED not_pa
    \/ PA_redirect /\ UNCHANGED not_pa
    \/ PA_unredirect /\ UNCHANGED not_pa
    \/ PA_spoof /\ UNCHANGED not_pa
    \/ PA_unspoof /\ UNCHANGED not_pa
    \/ PA_merge /\ UNCHANGED not_pa
    \/ PA_unmerge /\ UNCHANGED not_pa
    \/ PA_set_trust /\ UNCHANGED not_pa

SpecPoaceae == InitPoaceae /\ [][NextPoaceae]_vars

(***************************************************************************)
(* Claims about the Variant A verbs                                        *)
(***************************************************************************)
\* the bytes a call encodes: the name, or "src|target"
EncodedBytes(call) ==
    IF call.verb \in {"redirect", "merge"}
    THEN call.args[1] \o <<124>> \o call.args[2]
    ELSE call.args[1]

BufferSize(call) == IF call.verb \in {"redirect", "merge"} THEN 512 ELSE 256

\* the byte buffer the ioctl was given
BufferOf(call) == IF call.verb = "spoof" THEN call.payload.name ELSE call.payload

\* C7: for each of the eight verbs, an input whose encoded length is at least the
\* buffer size is rejected with an error and no ioctl is issued; a shorter input is
\* issued as a buffer of exactly the buffer size that starts with the input bytes and
\* is zero from there on, so its last byte is NUL.
C7_OversizedRejectedElsePadded ==
    pa_last.verb \notin {"none", "set_trust"} =>
        LET bytes == EncodedBytes(pa_last)
            size == BufferSize(pa_last)
        IN  IF Len(bytes) >= size
            THEN ~pa_last.issued /\ pa_last.res = "err"
            ELSE /\ pa_last.issued
                 /\ Len(BufferOf(pa_last)) = size
                 /\ \A i \in 1..size :
                      BufferOf(pa_last)[i] = IF i <= Len(bytes) THEN bytes[i] ELSE 0
                 /\ BufferOf(pa_last)[size] = 0

\* a "src|target" payload of 511 bytes, the longest accepted, went out with one NUL
C7_Witness ==
    /\ pa_last.verb = "redirect"
    /\ Len(EncodedBytes(pa_last)) = 511
    /\ pa_last.issued
    /\ pa_last.payload[256] = 124
    /\ pa_last.payload[511] = 97
    /\ pa_last.payload[512] = 0

\* the last two calls were hide(n) and unhide(n) for a name n shorter than 256 bytes
PairDone == pair # "none" /\ Len(pa_last.args[1]) < 256

C16_SpoofRecordSize ==
    pa_last.op = "add_spoof" =>
        /\ size_of(IoctlSpoofArgs) = SPOOF_ARGS_SIZE
        /\ DOMAIN pa_last.payload = { IoctlSpoofArgs[k].field : k \in DOMAIN IoctlSpoofArgs }
        /\ Len(pa_last.payload.name) = IoctlSpoofArgs[1].size
        /\ OffsetOf(IoctlSpoofArgs, 5) + IoctlSpoofArgs[5].size = SPOOF_ARGS_SIZE

\* a spoof request went out to the driver
C16_Witness ==
    /\ pa_last.verb = "spoof"
    /\ pa_last.op = "add_spoof"
    /\ pa_last.res = "ok"
    /\ Len(pa_last.args[1]) = 255
    /\ size_of(IoctlSpoofArgs) = 280

(***************************************************************************)
(* hymofs.rs: the Variant B operations                                     *)
(***************************************************************************)
MaxEntries == 2     \* entries below module_dir that WalkDir yields

EXPECTED_PROTOCOL_VERSION == 4

\* the versions the driver may report (a c_int)
Versions == {-2147483647 - 1, -1, 0, 3, 4, 5, 2147483647}

\* what an entry below module_dir may be: a directory, a regular file, a symlink, a
\* character device with device number zero, a character device with another number,
\* anything else (a fifo, a socket, a block device)
EntryKinds == {"dir", "file", "symlink", "chardev0", "chardev", "other"}

\* WalkDir yields the tree in pre-order: the depths the entry after walk w may have.
\* It is at most one level below the entry before it, and only a directory has entries
\* below it
NextDepths(w) ==
    IF w = <<>> THEN {1}
    ELSE 1..(IF w[Len(w)].kind = "dir" THEN w[Len(w)].depth + 1 ELSE w[Len(w)].depth)

\* hymofs.rs:11-26: the layout of an ioctl request number
HYMO_IOC_MAGIC == 224
IOC_NRBITS == 8
IOC_TYPEBITS == 8
IOC_SIZEBITS == 14
IOC_DIRBITS == 2
IOC_NRSHIFT == 0
IOC_TYPESHIFT == IOC_NRSHIFT + IOC_NRBITS
IOC_SIZESHIFT == IOC_TYPESHIFT + IOC_TYPEBITS
IOC_DIRSHIFT == IOC_SIZESHIFT + IOC_SIZEBITS
IOC_NONE == 0
IOC_WRITE == 1
IOC_READ == 2

\* a u32 is kept as its two 16-bit halves
\* x << n for a field value x below 2^16: the bits shifted past bit 31 are lost
Shl(x, n) ==
    IF n >= 16 THEN [hi |-> (x * 2^(n - 16)) % 2^16, lo |-> 0]
    ELSE [hi |-> ((x * 2^n) \div 2^16) % 2^16, lo |-> (x * 2^n) % 2^16]

\* a | b, bit by bit
RECURSIVE BitOr(_, _, _)
BitOr(a, b, bits) ==
    IF bits = 0 THEN 0
    ELSE (IF a % 2 = 1 \/ b % 2 = 1 THEN 1 ELSE 0) + 2 * BitOr(a \div 2, b \div 2, bits - 1)

Or32(a, b) == [hi |-> BitOr(a.hi, b.hi, 16), lo |-> BitOr(a.lo, b.lo, 16)]

\* a request number whose size field is shifted onto the type field
IOC_SizeOnType(dir, type, nr, size) ==
    Or32(Or32(Or32(Shl(dir, IOC_DIRSHIFT), Shl(type, IOC_TYPESHIFT)), Shl(nr, IOC_NRSHIFT)),
         Shl(size, IOC_TYPESHIFT))

\* hymofs.rs:28-35: the macro _IOC
IOC(dir, type, nr, size) ==
    Or32(Or32(Or32(Shl(dir, IOC_DIRSHIFT), Shl(type, IOC_TYPESHIFT)), Shl(nr, IOC_NRSHIFT)),
         Shl(size, IOC_SIZESHIFT))

\* u32 as libc::c_int : the same 32 bits read as a signed integer
as_c_int(u) == IF u.hi >= 2^15 THEN (u.hi - 2^16) * 2^16 + u.lo ELSE u.hi * 2^16 + u.lo

\* the sizes a pointer has on the targets the program is built for
PointerBytes == {4, 8}

\* hymofs.rs:55-60: the #[repr(C)] record HymoIoctlArg, for a pointer of w bytes
HymoIoctlArg(w) ==
    << [field |-> "src", size |-> w, align |-> w],
       [field |-> "target", size |-> w, align |-> w],
       [field |-> "type", size |-> 4, align |-> 4] >>

\* libc::c_int as the argument of get-version
c_int == << [field |-> "value", size |-> 4, align |-> 4] >>

Opcodes == {"add_rule", "del_rule", "hide_rule", "inject_rule", "clear_all", "get_version"}

\* hymofs.rs:62-67: the request numbers, by way of the macros _IOW, _IO and _IOR
ioc(op, w) ==
    CASE op = "add_rule" -> as_c_int(IOC(IOC_WRITE, HYMO_IOC_MAGIC, 1, size_of(HymoIoctlArg(w))))
      [] op = "del_rule" -> as_c_int(IOC(IOC_WRITE, HYMO_IOC_MAGIC, 2, size_of(HymoIoctlArg(w))))
      [] op = "hide_rule" -> as_c_int(IOC(IOC_WRITE, HYMO_IOC_MAGIC, 3, size_of(HymoIoctlArg(w))))
      [] op = "inject_rule" -> as_c_int(IOC(IOC_WRITE, HYMO_IOC_MAGIC, 4, size_of(HymoIoctlArg(w))))
      [] op = "clear_all" -> as_c_int(IOC(IOC_NONE, HYMO_IOC_MAGIC, 5, 0))
      [] op = "get_version" -> as_c_int(IOC(IOC_READ, HYMO_IOC_MAGIC, 6, size_of(c_int)))

\* the request number of every opcode on every target
Requests == [op \in Opcodes, w \in PointerBytes |-> ioc(op, w)]

\* a check_status with the two mismatch results exchanged
check_status_Swapped(open_ok, ioctl_ok, version) ==
    IF ~open_ok THEN "NotPresent"
    ELSE IF ~ioctl_ok THEN "NotPresent"
    ELSE IF version # EXPECTED_PROTOCOL_VERSION
         THEN (IF version > EXPECTED_PROTOCOL_VERSION THEN "KernelTooOld" ELSE "ModuleTooOld")
    ELSE "Available"

\* HymoFs::check_status (hymofs.rs:183-207)
check_status(open_ok, ioctl_ok, version) ==
    IF ~open_ok THEN "NotPresent"
    ELSE IF ~ioctl_ok THEN "NotPresent"
    ELSE IF version # EXPECTED_PROTOCOL_VERSION
         THEN (IF version < EXPECTED_PROTOCOL_VERSION THEN "KernelTooOld" ELSE "ModuleTooOld")
    ELSE "Available"

\* rules for an entry with the Redirect of a directory pushed before its Inject
RulesFor_RedirectFirst(i, kind) ==
    IF kind \in {"chardev0", "chardev"}
    THEN (IF kind = "chardev0" THEN << [rule |-> "Hide", entry |-> i, file_type |-> 0] >>
          ELSE <<>>)
    ELSE IF kind = "dir"
    THEN << [rule |-> "Redirect", entry |-> i, file_type |-> 4],
            [rule |-> "Inject", entry |-> i, file_type |-> 0] >>
    ELSE << [rule |-> "Redirect", entry |-> i,
             file_type |-> IF kind = "symlink" THEN 10 ELSE 8] >>

\* the rules inject_directory pushes for one entry (hymofs.rs:236-265); a rule names
\* its path by the index of the entry (0 is target_base itself)
RulesFor(i, kind) ==
    IF kind \in {"chardev0", "chardev"}
    THEN (IF kind = "chardev0" THEN << [rule |-> "Hide", entry |-> i, file_type |-> 0] >>
          ELSE <<>>)
    ELSE IF kind = "dir"
    THEN << [rule |-> "Inject", entry |-> i, file_type |-> 0],
            [rule |-> "Redirect", entry |-> i, file_type |-> 4] >>
    ELSE << [rule |-> "Redirect", entry |-> i,
             file_type |-> IF kind = "symlink" THEN 10 ELSE 8] >>

\* the ioctl apply_rules issues for a rule (hymofs.rs:132, 144, 156)
OpOf(rule) ==
    CASE rule.rule = "Redirect" -> "add_rule"
      [] rule.rule = "Hide" -> "hide_rule"
      [] rule.rule = "Inject" -> "inject_rule"

\* a loop that gives up at the first failing ioctl
AfterIoctl_Abort(ok) == IF ok THEN "continue" ELSE "abort"

\* hymofs.rs:133-135, 145-147, 157-159: a failing ioctl is logged, the loop goes on
AfterIoctl(ok) == "continue"

\* rules with the mark of whether their paths hold an interior NUL byte
WithNul(rs, nul) ==
    [k \in DOMAIN rs |->
       [rule |-> rs[k].rule, entry |-> rs[k].entry, file_type |-> rs[k].file_type,
        nul |-> nul]]

\* a new public operation starts: the results of the one before are gone
Begin(op) ==
    /\ hy_pc = "idle"
    /\ hy_op' = op

\* HymoFs::check_status
H_CheckStatus ==
    /\ Begin("check_status")
    /\ hy_opens' = 1
    /\ \E open_ok \in BOOLEAN, ioctl_ok \in BOOLEAN, version \in Versions :
         /\ hy_status' = [open_ok |-> open_ok, ioctl_ok |-> ioctl_ok, version |-> version,
                          status |-> check_status(open_ok, ioctl_ok, version)]
         /\ hy_stage' = IF open_ok THEN "none" ELSE "open_failed"
         /\ hy_issued' = IF open_ok
                         THEN << [op |-> "get_version", rule |-> 0, ok |-> ioctl_ok] >>
                         ELSE <<>>
         /\ version_queried' = (version_queried \/ open_ok)
         /\ hy_ret' = "ok"
    /\ hy_walk' = <<>> /\ hy_rules' = <<>> /\ hy_i' = 0
    /\ UNCHANGED hy_pc

\* HymoFs::get_version (hymofs.rs:178-181): Some(version) or None
H_GetVersion ==
    /\ Begin("get_version")
    /\ hy_opens' = 1
    /\ \E open_ok \in BOOLEAN, ioctl_ok \in BOOLEAN, version \in Versions :
         /\ hy_status' = [open_ok |-> open_ok, ioctl_ok |-> ioctl_ok, version |-> version,
                          status |-> "none"]
         /\ hy_stage' = IF open_ok THEN "none" ELSE "open_failed"
         /\ hy_issued' = IF open_ok
                         THEN << [op |-> "get_version", rule |-> 0, ok |-> ioctl_ok] >>
                         ELSE <<>>
         /\ version_queried' = (version_queried \/ open_ok)
         /\ hy_ret' = IF open_ok /\ ioctl_ok THEN "Some" ELSE "None"
    /\ hy_walk' = <<>> /\ hy_rules' = <<>> /\ hy_i' = 0
    /\ UNCHANGED hy_pc

\* HymoFs::clear (hymofs.rs:213-216) with HymoDriver::clear (hymofs.rs:110-119)
H_Clear ==
    /\ Begin("clear")
    /\ hy_opens' = 1
    /\ hy_status' = NoStatus
    /\ \E open_ok \in BOOLEAN, ioctl_ok \in BOOLEAN :
         /\ hy_stage' = IF open_ok THEN "none" ELSE "open_failed"
         /\ hy_issued' = IF open_ok
                         THEN << [op |-> "clear_all", rule |-> 0, ok |-> ioctl_ok] >>
                         ELSE <<>>
         /\ hy_ret' = IF open_ok /\ ioctl_ok THEN "ok" ELSE "err"
    /\ hy_walk' = <<>> /\ hy_rules' = <<>> /\ hy_i' = 0
    /\ UNCHANGED <<hy_pc, version_queried>>

\* HymoFs::hide_path (hymofs.rs:275-281) up to the call of apply_rules
H_HidePath ==
    /\ Begin("hide_path")
    /\ hy_opens' = 1
    /\ hy_status' = NoStatus
    /\ \E open_ok \in BOOLEAN, nul \in BOOLEAN :
         IF open_ok
         THEN /\ hy_rules' = WithNul(<< [rule |-> "Hide", entry |-> 0, file_type |-> 0] >>, nul)
              /\ hy_i' = 1 /\ hy_pc' = "apply" /\ hy_stage' = "applied" /\ hy_ret' = "none"
         ELSE /\ hy_rules' = <<>> /\ hy_i' = 0 /\ hy_pc' = "idle"
              /\ hy_stage' = "open_failed" /\ hy_ret' = "err"
    /\ hy_walk' = <<>> /\ hy_issued' = <<>>
    /\ UNCHANGED version_queried

\* an inject_directory that submits what it gathered although the walk failed
AfterWalk_SubmitAnyway(ok) == "apply"

\* hymofs.rs:231-268: the ? of the loop returns before apply_rules is reached
AfterWalk(ok) == IF ok THEN "apply" ELSE "idle"

\* HymoFs::inject_directory (hymofs.rs:218-228) up to the walk: it returns Ok at once
\* when module_dir is no directory ("skipped") and an error when the device cannot be
\* opened. Every rule path starts with target_base, so an interior NUL in it is in
\* every rule
H_InjectDirectory ==
    /\ Begin("inject_directory")
    /\ hy_status' = NoStatus
    /\ \/ \E stage \in {"skipped", "open_failed"} :
            /\ hy_rules' = <<>> /\ hy_pc' = "idle"
            /\ hy_stage' = stage
            /\ hy_opens' = IF stage = "skipped" THEN 0 ELSE 1
            /\ hy_ret' = IF stage = "skipped" THEN "ok" ELSE "err"
       \/ \E nul \in BOOLEAN :
            /\ hy_rules' = WithNul(<< [rule |-> "Inject", entry |-> 0, file_type |-> 0] >>, nul)
            /\ hy_opens' = 1
            /\ hy_pc' = "walk" /\ hy_stage' = "walking" /\ hy_ret' = "none"
    /\ hy_walk' = <<>> /\ hy_i' = 0 /\ hy_issued' = <<>>
    /\ UNCHANGED version_queried

\* one iteration of the loop of hymofs.rs:230-266
H_WalkEntry ==
    /\ hy_pc = "walk"
    /\ Len(hy_walk) < MaxEntries
    /\ \E kind \in EntryKinds, depth \in NextDepths(hy_walk) :
         /\ hy_walk' = Append(hy_walk, [kind |-> kind, depth |-> depth])
         /\ hy_rules' = hy_rules \o WithNul(RulesFor(Len(hy_walk) + 1, kind), hy_rules[1].nul)
    /\ UNCHANGED <<hy_pc, hy_op, hy_stage, hy_i, hy_issued, hy_status, hy_ret, version_queried,
                   hy_opens>>

\* the walk yields an error, or the metadata of a character device cannot be read
\* (hymofs.rs:231, 237): inject_directory returns it, no rule was submitted
H_WalkFail ==
    /\ hy_pc = "walk"
    /\ hy_pc' = AfterWalk(FALSE) /\ hy_stage' = "walk_failed" /\ hy_ret' = "err"
    /\ hy_i' = 1
    /\ UNCHANGED <<hy_op, hy_walk, hy_rules, hy_issued, hy_status, version_queried, hy_opens>>

\* the walk is over: driver.apply_rules(&rules) (hymofs.rs:268)
H_WalkEnd ==
    /\ hy_pc = "walk"
    /\ hy_pc' = AfterWalk(TRUE) /\ hy_stage' = "applied" /\ hy_i' = 1
    /\ UNCHANGED <<hy_op, hy_walk, hy_rules, hy_issued, hy_status, hy_ret, version_queried,
                   hy_opens>>

\* HymoDriver::apply_rules (hymofs.rs:121-164): one iteration of the loop. CString::new
\* fails on a path with an interior NUL and the ? returns the error
H_ApplyRule ==
    /\ hy_pc = "apply"
    /\ hy_i <= Len(hy_rules)
    /\ LET rule == hy_rules[hy_i]
       IN  IF rule.nul
           THEN /\ hy_pc' = "idle" /\ hy_ret' = "err"
                /\ UNCHANGED <<hy_issued, hy_i>>
           ELSE \E ok \in BOOLEAN :
                  /\ hy_issued' = Append(hy_issued, [op |-> OpOf(rule), rule |-> hy_i, ok |-> ok])
                  /\ IF AfterIoctl(ok) = "continue"
                     THEN hy_i' = hy_i + 1 /\ UNCHANGED <<hy_pc, hy_ret>>
                     ELSE hy_pc' = "idle" /\ hy_ret' = "err" /\ UNCHANGED hy_i
    /\ UNCHANGED <<hy_op, hy_stage, hy_walk, hy_rules, hy_status, version_queried, hy_opens>>

\* the batch is exhausted: Ok(()) (hymofs.rs:163 and 268-271)
H_ApplyDone ==
    /\ hy_pc = "apply"
    /\ hy_i > Len(hy_rules)
    /\ hy_pc' = "idle" /\ hy_ret' = "ok"
    /\ UNCHANGED <<hy_op, hy_stage, hy_walk, hy_rules, hy_i, hy_issued, hy_status,
                   version_queried, hy_opens>>

InitHymo ==
    /\ OverlayIdle
    /\ RunIdle
    /\ StorageIdle
    /\ PoaceaeIdle
    /\ HymoIdle
    /\ SyncIdle
    /\ OverlayfsIdle
    /\ ChildIdle
    /\ NotifyIdle

NextHymo ==
    \/ H_CheckStatus /\ UNCHANGED not_hy
    \/ H_GetVersion /\ UNCHANGED not_hy
    \/ H_Clear /\ UNCHANGED not_hy
    \/ H_HidePath /\ UNCHANGED not_hy
    \/ H_InjectDirectory /\ UNCHANGED not_hy
    \/ H_WalkEntry /\ UNCHANGED not_hy
    \/ H_WalkFail /\ UNCHANGED not_hy
    \/ H_WalkEnd /\ UNCHANGED not_hy
    \/ H_ApplyRule /\ UNCHANGED not_hy
    \/ H_ApplyDone /\ UNCHANGED not_hy

SpecHymo == InitHymo /\ [][NextHymo]_vars

\* C8: check_status answers NotPresent when the control device cannot be opened,
\* KernelTooOld when the driver reports a version below the expected one, ModuleTooOld
\* when it reports one above it, Available exactly when the reported version is the
\* expected one, and always exactly one of these four
C8_StatusByVersion ==
    hy_op = "check_status" =>
        LET st == hy_status
            reported == st.open_ok /\ st.ioctl_ok
        IN  /\ st.status \in {"NotPresent", "KernelTooOld", "ModuleTooOld", "Available"}
            /\ ~st.open_ok => st.status = "NotPresent"
            /\ reported /\ st.version < EXPECTED_PROTOCOL_VERSION => st.status = "KernelTooOld"
            /\ reported /\ st.version > EXPECTED_PROTOCOL_VERSION => st.status = "ModuleTooOld"
            /\ st.status = "Available" <=> reported /\ st.version = EXPECTED_PROTOCOL_VERSION

\* the driver reported the version just above the expected one
C8_Witness ==
    /\ hy_op = "check_status"
    /\ hy_status.open_ok /\ hy_status.ioctl_ok
    /\ hy_status.version = EXPECTED_PROTOCOL_VERSION + 1
    /\ hy_status.status = "ModuleTooOld"

\* C9: no add-rule, hide-rule, inject-rule or clear-all ioctl is issued unless a
\* get-version ioctl has been issued before it
C9_VersionQueriedFirst ==
    \A k \in DOMAIN hy_issued :
        hy_issued[k].op # "get_version" => version_queried

\* the batch of an inject_directory or hide_path call that reached apply_rules and
\* returned
BatchReturned == hy_stage = "applied" /\ hy_pc = "idle"

\* the ioctls went out for the first n rules of the batch, in batch order
IssuedPrefix(n) ==
    /\ Len(hy_issued) = n
    /\ \A k \in 1..n : hy_issued[k].rule = k /\ hy_issued[k].op = OpOf(hy_rules[k])

\* C10 as stated: apply_rules issues the ioctl for every rule of the batch, in batch
\* order, and returns no error
C10_EveryRuleIssued ==
    BatchReturned => IssuedPrefix(Len(hy_rules)) /\ hy_ret = "ok"

\* C10, amended: the ioctls go out in batch order whatever the outcome of the earlier
\* ones; the batch stops, with an error, only at a rule whose path cannot be made a C
\* string, and completes with Ok otherwise
C10_OnlyEncodingStopsBatch ==
    /\ hy_stage = "applied" => IssuedPrefix(Len(hy_issued))
    /\ BatchReturned /\ hy_ret = "ok" => IssuedPrefix(Len(hy_rules))
    /\ BatchReturned /\ hy_ret # "ok" =>
           /\ hy_ret = "err"
           /\ Len(hy_issued) < Len(hy_rules)
           /\ hy_rules[Len(hy_issued) + 1].nul

\* the first ioctl of a batch of three or more rules failed, and the call returned Ok
\* after the last one
C10_Witness ==
    /\ hy_op = "inject_directory"
    /\ BatchReturned
    /\ hy_ret = "ok"
    /\ Len(hy_rules) >= 3
    /\ IssuedPrefix(Len(hy_rules))
    /\ ~hy_issued[1].ok
    /\ hy_issued[Len(hy_issued)].ok

\* the rules of the batch that were pushed for entry i of the walk, without the path
EntryRules(i) ==
    LET OfEntry(r) == r.entry = i
        rs == SelectSeq(hy_rules, OfEntry)
    IN  [k \in DOMAIN rs |-> [rule |-> rs[k].rule, file_type |-> rs[k].file_type]]

\* C14: for every entry visited by inject_directory, a directory yields an Inject rule
\* and a Redirect rule with type code 4; a character device with device number zero
\* yields a Hide rule and no Redirect; every other entry yields exactly one Redirect
\* rule, with type code 10 for a symlink and 8 otherwise. No entry yields zero rules.
C14_RulesPerEntry ==
    hy_op = "inject_directory" =>
        \A i \in DOMAIN hy_walk :
            LET kind == hy_walk[i].kind
            IN  /\ EntryRules(i) # <<>>
                /\ EntryRules(i) =
                     CASE kind = "dir" -> << [rule |-> "Inject", file_type |-> 0],
                                             [rule |-> "Redirect", file_type |-> 4] >>
                       [] kind = "chardev0" -> << [rule |-> "Hide", file_type |-> 0] >>
                       [] kind = "symlink" -> << [rule |-> "Redirect", file_type |-> 10] >>
                       [] OTHER -> << [rule |-> "Redirect", file_type |-> 8] >>

\* entry a of the walk is a directory above entry e; 0 is target_base, above them all
IsAbove(a, e) ==
    \/ a = 0 /\ e > 0
    \/ /\ 0 < a /\ a < e
       /\ hy_walk[a].kind = "dir"
       /\ \A j \in (a + 1)..e : hy_walk[j].depth > hy_walk[a].depth

\* the positions in the batch of the rules of entry e
RulesOf(e) == { k \in 1..Len(hy_rules) : hy_rules[k].entry = e }

\* C30: in the rule batch built and submitted by inject_directory the rules of a
\* directory come before the rules of every entry beneath it, the Inject rule of a
\* directory comes before that directory's Redirect rule, and the ioctls are issued to
\* the driver in exactly the batch order.
C30_BatchOrder ==
    hy_op = "inject_directory" =>
        /\ \A a, e \in 0..Len(hy_walk) :
              IsAbove(a, e) =>
                 /\ RulesOf(a) # {}
                 /\ \A k \in RulesOf(a), n \in RulesOf(e) : k < n
        /\ \A e \in 0..Len(hy_walk) :
              \A k, n \in RulesOf(e) :
                 (hy_rules[k].rule = "Inject" /\ hy_rules[n].rule = "Redirect") => k < n
        /\ \A e \in 1..Len(hy_walk) :
              hy_walk[e].kind = "dir" =>
                 { hy_rules[k].rule : k \in RulesOf(e) } = {"Inject", "Redirect"}
        /\ \A k \in 1..Len(hy_issued) :
              hy_issued[k].rule = k /\ hy_issued[k].op = OpOf(hy_rules[k])

\* a directory with a file beneath it: four rules, all issued in the order of the batch
C30_Witness ==
    /\ hy_op = "inject_directory"
    /\ hy_pc = "idle" /\ hy_ret = "ok"
    /\ Len(hy_walk) = 2
    /\ hy_walk[1] = [kind |-> "dir", depth |-> 1]
    /\ hy_walk[2] = [kind |-> "file", depth |-> 2]
    /\ Len(hy_rules) = 4
    /\ Len(hy_issued) = 4

\* the four fields read back from the 32 bits of a request number
FieldsOf(request) ==
    LET lo == request % 2^16
        hi == ((request - lo) \div 2^16) % 2^16
    IN  [dir |-> hi \div 2^14, size |-> hi % 2^14, type |-> lo \div 2^8, nr |-> lo % 2^8]

\* the sequence number each opcode is given at hymofs.rs:62-67
NrOf(op) ==
    CASE op = "add_rule" -> 1 [] op = "del_rule" -> 2 [] op = "hide_rule" -> 3
      [] op = "inject_rule" -> 4 [] op = "clear_all" -> 5 [] op = "get_version" -> 6

\* for every opcode and target: the fields read back from the request number are the
\* ones that were packed, and packing them again gives the request number
PackedAsExpected ==
    [op \in Opcodes, w \in PointerBytes |->
        LET f == FieldsOf(Requests[op, w])
            rule_verb == op \in {"add_rule", "del_rule", "hide_rule", "inject_rule"}
        IN  /\ f.type = 224
            /\ f.nr = NrOf(op)
            /\ f.dir = (IF rule_verb THEN 1 ELSE IF op = "get_version" THEN 2 ELSE 0)
            /\ f.size = (IF rule_verb THEN (IF w = 8 THEN 24 ELSE 12)
                         ELSE IF op = "get_version" THEN 4 ELSE 0)
            /\ as_c_int(IOC(f.dir, f.type, f.nr, f.size)) = Requests[op, w]]

\* the four fields lie side by side and fill the 32 bits; the six request numbers of a
\* target differ
FieldsDisjointOpcodesDistinct ==
    /\ IOC_NRSHIFT = 0 /\ IOC_TYPESHIFT = 8 /\ IOC_SIZESHIFT = 16 /\ IOC_DIRSHIFT = 30
    /\ IOC_DIRSHIFT + IOC_DIRBITS = 32
    /\ \A w \in PointerBytes :
          \A a, b \in Opcodes : a # b => Requests[a, w] # Requests[b, w]

\* C31: every Variant B opcode packs direction into bits 30-31, payload size into bits
\* 16-29, the type byte into bits 8-15 and the sequence number into bits 0-7 with no
\* overlap, so the four fields are recoverable from the packed integer; clear-all uses
\* direction none with size 0, get-version direction read, the four rule verbs
\* direction write; the six opcodes are pairwise distinct. It holds of all six opcodes
\* and so of the opcode of every ioctl issued.
C31_OpcodePacking ==
    /\ FieldsDisjointOpcodesDistinct
    /\ \A op \in Opcodes, w \in PointerBytes : PackedAsExpected[op, w]
    /\ \A k \in 1..Len(hy_issued) : hy_issued[k].op \in Opcodes

\* an add-rule ioctl followed an inject-rule ioctl; get-version, with direction read,
\* has bit 31 set and is a negative c_int
C31_Witness ==
    /\ Len(hy_issued) >= 2
    /\ hy_issued[1].op = "inject_rule"
    /\ hy_issued[2].op = "add_rule"
    /\ Requests["add_rule", 8] = 1075372033
    /\ Requests["get_version", 8] < 0

\* C36: inject_directory submits rules to the driver only after the whole module tree
\* has been traversed successfully: if the module directory does not exist or is not a
\* directory it returns Ok without opening the device or issuing any ioctl, and if the
\* traversal or the reading of metadata fails for an entry it returns an error with no
\* rule ioctl issued at all.
C36_RulesAfterWholeWalk ==
    hy_op = "inject_directory" =>
        /\ hy_issued # <<>> => hy_stage = "applied" /\ hy_pc \in {"apply", "idle"}
        /\ hy_pc = "walk" => hy_issued = <<>>
        /\ hy_stage = "skipped" =>
              hy_pc = "idle" /\ hy_ret = "ok" /\ hy_opens = 0 /\ hy_issued = <<>>
        /\ hy_stage = "walk_failed" =>
              hy_pc = "idle" /\ hy_ret = "err" /\ hy_issued = <<>>
        /\ hy_stage = "applied" => \A k \in 1..Len(hy_issued) : hy_issued[k].rule <= Len(hy_rules)

\* a walk that had already gathered the rules of two entries failed: nothing was
\* submitted and the call returned the error
C36_Witness ==
    /\ hy_op = "inject_directory"
    /\ hy_stage = "walk_failed"
    /\ Len(hy_walk) = 2
    /\ Len(hy_rules) >= 3
    /\ hy_issued = <<>>
    /\ hy_ret = "err"

(***************************************************************************)
(* main.rs: the population of the storage root, run after run              *)
(***************************************************************************)
\* what a module directory may hold: nothing of interest, a directory named after a
\* builtin partition, a directory named after a configured extra partition only, a
\* regular file named after a builtin partition
ContentKinds == {"empty", "builtin_dir", "extra_dir", "builtin_file"}

\* the p with (module directory).join(p).is_dir()
DirsOf(kind) ==
    CASE kind = "builtin_dir" -> {"system"}
      [] kind = "extra_dir" -> {"my_ext"}
      [] OTHER -> {}

\* main.rs:270: BUILTIN_PARTITIONS.iter().any(|p| src.join(p).exists())
has_content(kind) == kind \in {"builtin_dir", "builtin_file"}

\* the partition list of a run whose config.partitions is ["my_ext"] (main.rs:471-473)
SyncPartitions == BUILTIN_PARTITIONS \o <<"my_ext">>

\* main.rs:548-568: the ids of the directories of the source that are not reserved and
\* carry no marker
scan_enabled_module_ids(src) ==
    { id \in DOMAIN src : id \notin {"meta-hybrid", "lost+found"} /\ ~src[id].marked }

\* a directory tree with the entries of add written over it
CopyInto(tree, add) ==
    [id \in DOMAIN tree \cup DOMAIN add |-> IF id \in DOMAIN add THEN add[id] ELSE tree[id]]

\* between two runs a module is installed or replaced in the source
E_Install ==
    /\ sy_pc = "setup"
    /\ \E kind \in ContentKinds :
         source' = CopyInto(source, [id \in {"A"} |-> [kind |-> kind, marked |-> FALSE]])
    /\ UNCHANGED <<sy_pc, image, sy_backend, mnt, scanned, placed, sy_ret>>

\* between two runs a module of the source gets a disable, remove or skip_mount marker
E_Mark ==
    /\ sy_pc = "setup"
    /\ "A" \in DOMAIN source
    /\ ~source["A"].marked
    /\ source' = [source EXCEPT !["A"].marked = TRUE]
    /\ UNCHANGED <<sy_pc, image, sy_backend, mnt, scanned, placed, sy_ret>>

\* between two runs a module is deleted from the source
E_Uninstall ==
    /\ sy_pc = "setup"
    /\ "A" \in DOMAIN source
    /\ source' = [id \in DOMAIN source \ {"A"} |-> source[id]]
    /\ UNCHANGED <<sy_pc, image, sy_backend, mnt, scanned, placed, sy_ret>>

\* main.rs:436-443: the storage of the run. A tmpfs starts empty, the image holds what
\* earlier runs wrote to it; an error of setup_storage ends the run
Y_Setup ==
    /\ sy_pc = "setup"
    /\ \E outcome \in {"tmpfs", "ext4", "err"} :
         /\ sy_backend' = IF outcome = "err" THEN "none" ELSE outcome
         /\ mnt' = IF outcome = "ext4" THEN image ELSE << >>
         /\ sy_pc' = IF outcome = "err" THEN "done" ELSE "sync"
         /\ sy_ret' = IF outcome = "err" THEN "err" ELSE "none"
    /\ scanned' = {}
    /\ placed' = {}
    /\ UNCHANGED <<source, image>>

\* main.rs:441-444 with sync_active_modules (main.rs:256-280): an error of the scan of
\* the source is logged; a module is copied when it has content, and a failed copy is
\* logged. Nothing is ever removed from the storage root
Y_Sync ==
    /\ sy_pc = "sync"
    /\ \E scan_ok \in BOOLEAN :
         LET ids == IF scan_ok THEN scan_enabled_module_ids(source) ELSE {}
             wanted == { id \in ids : has_content(source[id].kind) }
         IN  \E copied \in SUBSET wanted :
                LET after == CopyInto(mnt, [id \in copied |-> source[id].kind])
                IN  /\ mnt' = after
                    /\ image' = IF sy_backend = "ext4" THEN after ELSE image
    /\ sy_pc' = "scan"
    /\ UNCHANGED <<source, sy_backend, scanned, placed, sy_ret>>

\* main.rs:451-494: the scan of the storage root and the classification of what it
\* found; the rest of the run does not change what was placed
Y_Scan ==
    /\ sy_pc = "scan"
    /\ \E read_ok \in BOOLEAN, looked_up \in [DOMAIN mnt -> ModeValues] :
         LET found == IF read_ok THEN DOMAIN mnt ELSE {}
             c(id) == ClassifyModule(<< >>, {}, SyncPartitions, id,
                                     ResolveMode(looked_up[id]), DirsOf(mnt[id]))
         IN  /\ scanned' = found
             /\ placed' = { id \in found : DOMAIN c(id).map # {} \/ c(id).magic # {} }
    /\ sy_pc' = "done"
    /\ sy_ret' = "ok"
    /\ UNCHANGED <<source, image, sy_backend, mnt>>

\* the device reboots and the tool runs again
Y_NextRun ==
    /\ sy_pc = "done"
    /\ sy_pc' = "setup"
    /\ sy_backend' = "none"
    /\ mnt' = << >>
    /\ scanned' = {}
    /\ placed' = {}
    /\ sy_ret' = "none"
    /\ UNCHANGED <<source, image>>

InitSync ==
    /\ OverlayIdle
    /\ RunIdle
    /\ StorageIdle
    /\ PoaceaeIdle
    /\ HymoIdle
    /\ SyncIdle
    /\ OverlayfsIdle
    /\ ChildIdle
    /\ NotifyIdle

NextSync ==
    \/ E_Install /\ UNCHANGED not_sy
    \/ E_Mark /\ UNCHANGED not_sy
    \/ E_Uninstall /\ UNCHANGED not_sy
    \/ Y_Setup /\ UNCHANGED not_sy
    \/ Y_Sync /\ UNCHANGED not_sy
    \/ Y_Scan /\ UNCHANGED not_sy
    \/ Y_NextRun /\ UNCHANGED not_sy

SpecSync == InitSync /\ [][NextSync]_vars

\* the module source carries none of the disable/remove/skip_mount markers for id
Unmarked(id) == id \in DOMAIN source => ~source[id].marked

\* C12: a directory under the populated storage root is treated as a module if and
\* only if its name is not reserved, the module source carries none of the markers
\* for it, and it contains a subdirectory named after a recognized partition; in every
\* run of a sequence of runs.
C12_TreatedIffEligible ==
    sy_pc = "done" /\ sy_ret = "ok" =>
        \A id \in scanned :
            id \in placed <=>
                /\ id \notin {"meta-hybrid", "lost+found"}
                /\ Unmarked(id)
                /\ DirsOf(mnt[id]) \cap Range(SyncPartitions) # {}

(***************************************************************************)
(* tools/notify/src/main.rs: the upload loop of the notifier               *)
(***************************************************************************)
max_retries == 2

\* args[1], if given: None, or Some of a thread id as typed
TopicArgs ==
    { [some |-> FALSE, tid |-> ""] } \cup { [some |-> TRUE, tid |-> t] : t \in {"", " ", "0", "42"} }

\* str::trim on the ids considered
trim(t) == IF t = " " THEN "" ELSE t

\* main.rs:83-90: the form carries message_thread_id
HasThread(topic_id) == topic_id.some /\ trim(topic_id.tid) # "" /\ topic_id.tid # "0"

\* what send() may yield for sendDocument: a network error, or a response with its
\* status and whether its text contains TOPIC_CLOSED
UploadOutcomes ==
    { [responded |-> FALSE, success |-> FALSE, closed |-> FALSE] }
        \cup [responded : {TRUE}, success : BOOLEAN, closed : BOOLEAN]

\* what send() may yield for reopenForumTopic (main.rs:178-195)
ReopenOutcomes == {"success", "refused", "network_error"}

\* reopen_topic (main.rs:165-196)
reopen_topic(outcome) == outcome = "success"

\* main.rs:148: attempt == max_retries - 1
LastAttempt(attempt) == attempt = max_retries - 1

\* exit(code), or the return from main (code 0); status is -1 while the loop runs
Exit(n, code) == [n EXCEPT !.pc = "exited", !.status = code]

\* main.rs:128-151: the failure is reported; exit(1) on the last attempt, else the loop
\* sleeps and goes on
AfterFailure(n) ==
    IF LastAttempt(n.attempt) THEN Exit(n, 1)
    ELSE [n EXCEPT !.pc = "form", !.attempt = @ + 1]

\* main.rs:78-100: the form of this attempt; a file that cannot be read ends the run
N_Form ==
    /\ nt.pc = "form"
    /\ nt.attempt < max_retries
    /\ \E file_ok \in BOOLEAN :
         nt' = IF file_ok THEN [nt EXCEPT !.pc = "send"] ELSE Exit(nt, 1)

\* main.rs:102-146: the upload and what the loop makes of its outcome
N_Send ==
    /\ nt.pc = "send"
    /\ \E o \in UploadOutcomes :
         LET sent == [nt EXCEPT !.requests = Append(@, [request |-> "sendDocument",
                                                        attempt |-> nt.attempt,
                                                        thread |-> HasThread(nt.topic_id),
                                                        outcome |-> o])]
         IN  nt' = IF ~o.responded THEN AfterFailure(sent)
                   ELSE IF o.success THEN Exit(sent, 0)
                   ELSE IF o.closed /\ nt.attempt < max_retries - 1 /\ nt.topic_id.some
                        THEN [sent EXCEPT !.pc = "reopen"]
                   ELSE AfterFailure(sent)

\* main.rs:115-122: reopen_topic, then the retry or exit(1)
N_Reopen ==
    /\ nt.pc = "reopen"
    /\ \E o \in ReopenOutcomes :
         LET sent == [nt EXCEPT !.requests = Append(@, [request |-> "reopenForumTopic",
                                                        attempt |-> nt.attempt,
                                                        thread |-> TRUE,
                                                        outcome |-> o])]
         IN  nt' = IF reopen_topic(o)
                   THEN [sent EXCEPT !.pc = "form", !.attempt = @ + 1]
                   ELSE Exit(sent, 1)

InitNotify ==
    /\ OverlayIdle
    /\ RunIdle
    /\ StorageIdle
    /\ PoaceaeIdle
    /\ HymoIdle
    /\ SyncIdle
    /\ OverlayfsIdle
    /\ ChildIdle
    /\ \E topic_id \in TopicArgs :
         nt = [pc |-> "form", topic_id |-> topic_id, attempt |-> 0, requests |-> <<>>,
               status |-> -1]

NextNotify ==
    \/ N_Form /\ UNCHANGED not_nt
    \/ N_Send /\ UNCHANGED not_nt
    \/ N_Reopen /\ UNCHANGED not_nt

SpecNotify == InitNotify /\ [][NextNotify]_vars

\* the positions of the requests of one kind, in the order they were sent
RequestsOf(kind) == { k \in 1..Len(nt.requests) : nt.requests[k].request = kind }

Uploads == RequestsOf("sendDocument")

UploadSucceeded(k) == nt.requests[k].outcome.responded /\ nt.requests[k].outcome.success

TopicClosed(k) ==
    /\ nt.requests[k].outcome.responded
    /\ ~nt.requests[k].outcome.success
    /\ nt.requests[k].outcome.closed

\* C37: for every sequence of server responses and network errors the upload loop ends
\* after at most 2 upload attempts and at most 1 topic-reopen request; it ends with a
\* success status if and only if some upload attempt received a success HTTP status,
\* and it retries after a TOPIC_CLOSED response only when the reopen request succeeded
\* and an attempt remains.
C37_BoundedRetries ==
    /\ Cardinality(Uploads) <= 2
    /\ Cardinality(RequestsOf("reopenForumTopic")) <= 1
    /\ nt.pc = "exited" => (nt.status = 0 <=> \E k \in Uploads : UploadSucceeded(k))
    /\ \A k \in Uploads : \A later \in Uploads :
          (k < later /\ TopicClosed(k)) =>
              /\ nt.requests[k].attempt < max_retries - 1
              /\ \E r \in RequestsOf("reopenForumTopic") :
                    k < r /\ r < later /\ nt.requests[r].outcome = "success"

====
